---- MODULE Spec2Model ----
(***************************************************************************)
(* Dynamic backend synchronisation of the HAProxy ingress controller:      *)
(* the slot pool of one (service, port) backend, the runtime pass          *)
(* SyncBackendSrvs, the configuration pass HandleEndpoints with            *)
(* scaleHAProxySrvs and updateHAProxySrv, and handleGlobalConfig.          *)
(***************************************************************************)
EXTENDS Integers, Sequences, FiniteSets, TLC

\* ------------------------------------------------------------------------
\* Bounds of the model
\* ------------------------------------------------------------------------
MaxPool == 3          \* cap on len(*HAProxySrvs)
MaxSlots == 2         \* largest slot-count annotation value tried
NumAddrs == 2         \* number of distinct endpoint addresses

AllAddrs == <<"10.0.0.1", "10.0.0.2", "10.0.0.3", "10.0.0.4">>
Addrs == {AllAddrs[i] : i \in 1..NumAddrs}
Ports == {80, 8080}

\* a nil error
Nil == [fn |-> "nil", server |-> <<>>, msg |-> <<>>]

\* ------------------------------------------------------------------------
\* store.HAProxySrv and store.Address
\* ------------------------------------------------------------------------
HAProxySrv(name, address, modified, port) ==
    [Name |-> name, Address |-> address, Modified |-> modified, Port |-> port]

Address(address, port) == [Address |-> address, Port |-> port]

\* every value the endpoint collaborator can leave in NewAddresses[port]:
\* a map keyed by address whose entry carries the same address
AddressSets ==
    UNION {[S -> Ports] : S \in SUBSET Addrs}

AddressMap(m) == [a \in DOMAIN m |-> Address(a, m[a])]

\* delete(m, k)
MapDelete(m, k) == [x \in DOMAIN m \ {k} |-> m[x]]

\* the orders in which a Go `range` may visit the keys of a map
RangeOrders(S) ==
    {f \in [1..Cardinality(S) -> S] : \A i, j \in DOMAIN f : i # j => f[i] # f[j]}

\* ------------------------------------------------------------------------
\* fmt.Sprintf("SRV_%d", n) and strconv.Atoi
\* ------------------------------------------------------------------------
Digits == <<"0", "1", "2", "3", "4", "5", "6", "7", "8", "9">>

DigitVal(c) == CHOOSE d \in 0..9 : Digits[d + 1] = c

IsDigit(c) == \E d \in 0..9 : Digits[d + 1] = c

RECURSIVE Itoa(_)
Itoa(n) == IF n < 10 THEN <<Digits[n + 1]>> ELSE Append(Itoa(n \div 10), Digits[(n % 10) + 1])

\* "SRV_%d": the name as the sequence of its characters
SrvName(n) == <<"S", "R", "V", "_">> \o Itoa(n)

RECURSIVE DigitsValue(_, _)
DigitsValue(s, acc) ==
    IF s = <<>> THEN acc ELSE DigitsValue(Tail(s), acc * 10 + DigitVal(Head(s)))

\* strconv.Atoi on a string given as its characters: [err, value]
Atoi(s) ==
    LET signed == s # <<>> /\ Head(s) \in {"-", "+"}
        body == IF signed THEN Tail(s) ELSE s
    IN  IF body = <<>> \/ \E i \in DOMAIN body : ~IsDigit(body[i])
        THEN [err |-> TRUE, value |-> 0]
        ELSE [err |-> FALSE,
              value |-> IF signed /\ Head(s) = "-" THEN 0 - DigitsValue(body, 0)
                        ELSE DigitsValue(body, 0)]

\* ------------------------------------------------------------------------
\* utils.Errors: the accumulator of the errors of one pass
\* ------------------------------------------------------------------------
\* errors.Add(err): nil errors are not kept
ErrorsAdd(errors, err) == IF err = Nil THEN errors ELSE Append(errors, err)

\* errors.Result(): nil when nothing was added, else one error made of all
ErrorsResult(errors) == [nil |-> errors = <<>>, errors |-> errors]

\* the error a failed control-plane call returns
CallError(fn, name, msg) == [fn |-> fn, server |-> name, msg |-> msg]

\* error texts of the control plane, as their words
MsgFailed == <<"connection", "refused">>
MsgNotExist == <<"server", "does", "not", "exist", "in", "backend">>

\* strings.Contains on texts given as their words
Contains(text, sub) ==
    \E k \in 0..(Len(text) - Len(sub)) : \A j \in 1..Len(sub) : text[k + j] = sub[j]

\* ------------------------------------------------------------------------
\* State
\* ------------------------------------------------------------------------
VARIABLES
    pool,          \* *HAProxySrvs: the slot pool of the backend
    newAddresses,  \* NewAddresses[sp.Name]: the Address Set, address -> Address
    BackendName,   \* BackendName[sp.Name] in the store ("" until HandleEndpoints ran)
    DNS,           \* s.service.DNS
    calls,         \* control-plane calls issued by the last handler, in order
    result,        \* error returned by the last SyncBackendSrvs
    reload,        \* reload returned by the last HandleEndpoints
    disabled,      \* the handler's local list `disabled` when its first loop ended
    liveIn,        \* the Address Set handed to the last SyncBackendSrvs
    pushFailed,    \* names of the slots whose last SyncBackendSrvs push failed
    lastOp,        \* the handler or environment step taken last
    given,         \* what the last handler was handed when it was called
    srvsScaled,    \* HandleEndpoints: srvsScaled when it returned
    srvsActiveAnn, \* HandleEndpoints: srvsActiveAnn when it returned
    config,        \* the global and defaults sections the client holds
    locals,        \* handleGlobalConfig: oldGlobal, global, oldDefaults, defaults at return
    restart        \* restart returned by the last handleGlobalConfig

vars == <<pool, newAddresses, BackendName, DNS, calls, result, reload,
          disabled, liveIn, pushFailed, lastOp, given, srvsScaled, srvsActiveAnn,
          config, locals, restart>>

ModifiedIdx(srvs) == {i \in DOMAIN srvs : srvs[i].Modified}

\* ------------------------------------------------------------------------
\* SyncBackendSrvs
\* ------------------------------------------------------------------------
portChanged == FALSE

\* variant: the flag a slot carried into the pass is dropped
InheritModifiedDropped(srv) == [srv EXCEPT !.Modified = portChanged]

\* srv.Modified = portChanged || srv.Modified
InheritModified(srv) == [srv EXCEPT !.Modified = portChanged \/ srv.Modified]

\* (*haproxySrvs)[i].Address = ""; (*haproxySrvs)[i].Modified = true
DisableSrv(srv) == [srv EXCEPT !.Address = "", !.Modified = TRUE]

DisableAt(srvs, i) == [srvs EXCEPT ![i] = DisableSrv(srvs[i])]

\* variant: a stale slot is taken out of the pool instead of being disabled
RECURSIVE DisableStaleRemoving(_, _, _, _)
DisableStaleRemoving(srvs, addrs, i, dis) ==
    IF i > Len(srvs)
    THEN [srvs |-> srvs, addrs |-> addrs, disabled |-> dis]
    ELSE IF srvs[i].Address \in DOMAIN addrs
         THEN DisableStaleRemoving(srvs, MapDelete(addrs, srvs[i].Address), i + 1, dis)
         ELSE DisableStaleRemoving(SubSeq(srvs, 1, i - 1) \o SubSeq(srvs, i + 1, Len(srvs)),
                                   addrs, i, dis)

\* first loop: drop from the set what the pool already holds, disable the rest
RECURSIVE DisableStale(_, _, _, _)
DisableStale(srvs, addrs, i, dis) ==
    IF i > Len(srvs)
    THEN [srvs |-> srvs, addrs |-> addrs, disabled |-> dis]
    ELSE LET s1 == [srvs EXCEPT ![i] = InheritModified(srvs[i])]
         IN  IF s1[i].Address \in DOMAIN addrs
             THEN DisableStale(s1, MapDelete(addrs, s1[i].Address), i + 1, dis)
             ELSE DisableStale(DisableAt(s1, i), addrs, i + 1, Append(dis, i))

\* variant: the slot is overwritten by a fresh struct, which has no Name
AssignSrvFresh(srv, address) == HAProxySrv(<<>>, address.Address, TRUE, address.Port)

\* disabled[0].Address = address.Address; .Modified = true; .Port = address.Port
AssignSrv(srv, address) ==
    [srv EXCEPT !.Address = address.Address, !.Modified = TRUE, !.Port = address.Port]

\* variant: the disabled slots are consumed from the end of the list
RECURSIVE AssignNewFromEnd(_, _, _, _)
AssignNewFromEnd(srvs, addrs, dis, order) ==
    IF order = <<>> \/ Len(dis) = 0
    THEN [srvs |-> srvs, addrs |-> addrs]
    ELSE LET key == Head(order)
             last == dis[Len(dis)]
         IN  AssignNewFromEnd([srvs EXCEPT ![last] = AssignSrv(srvs[last], addrs[key])],
                              MapDelete(addrs, key), SubSeq(dis, 1, Len(dis) - 1), Tail(order))

\* variant: the list of disabled slots is not advanced, so every remaining
\* address is written into the same slot
RECURSIVE AssignNewSameSlot(_, _, _, _)
AssignNewSameSlot(srvs, addrs, dis, order) ==
    IF order = <<>> \/ Len(dis) = 0
    THEN [srvs |-> srvs, addrs |-> addrs]
    ELSE LET key == Head(order)
         IN  AssignNewSameSlot([srvs EXCEPT ![Head(dis)] = AssignSrv(srvs[Head(dis)], addrs[key])],
                               MapDelete(addrs, key), dis, Tail(order))

\* second loop: range over the remaining addresses while a disabled slot is left
RECURSIVE AssignNew(_, _, _, _)
AssignNew(srvs, addrs, dis, order) ==
    IF order = <<>> \/ Len(dis) = 0
    THEN [srvs |-> srvs, addrs |-> addrs]
    ELSE LET key == Head(order)
         IN  AssignNew([srvs EXCEPT ![Head(dis)] = AssignSrv(srvs[Head(dis)], addrs[key])],
                       MapDelete(addrs, key), Tail(dis), Tail(order))

\* variant: every slot is pushed
ShouldPushAll(srv) == TRUE

\* if !srv.Modified { continue }
ShouldPush(srv) == srv.Modified

\* variant: a disabled slot is sent with the port it last had
TargetStateKeepPort(srv) ==
    IF srv.Address = ""
    THEN [ip |-> "127.0.0.1", port |-> srv.Port, state |-> "maint"]
    ELSE [ip |-> srv.Address, port |-> srv.Port, state |-> "ready"]

\* the address, port and state a slot is pushed with
TargetState(srv) ==
    IF srv.Address = ""
    THEN [ip |-> "127.0.0.1", port |-> 0, state |-> "maint"]
    ELSE [ip |-> srv.Address, port |-> srv.Port, state |-> "ready"]

SetServerAddr(name, ip, port, err) ==
    [fn |-> "SetServerAddr", server |-> name, ip |-> ip, port |-> port, err |-> err]

SetServerState(name, state, err) ==
    [fn |-> "SetServerState", server |-> name, state |-> state, err |-> err]

\* variant: the state is set before the address
SrvCallsStateFirst(srv, addrErr, stateErr) ==
    LET t == TargetState(srv)
    IN  <<SetServerState(srv.Name, t.state, stateErr),
          SetServerAddr(srv.Name, t.ip, t.port, addrErr)>>

\* the two calls for one slot, in the order they are issued
SrvCalls(srv, addrErr, stateErr) ==
    LET t == TargetState(srv)
    IN  <<SetServerAddr(srv.Name, t.ip, t.port, addrErr),
          SetServerState(srv.Name, t.state, stateErr)>>

\* variant: the errors are kept only when both calls failed
RecordErrorsBoth(errors, addrErr, stateErr) ==
    IF addrErr # Nil /\ stateErr # Nil
    THEN ErrorsAdd(ErrorsAdd(errors, addrErr), stateErr)
    ELSE errors

\* if addrErr != nil || stateErr != nil { errors.Add(addrErr); errors.Add(stateErr) }
RecordErrors(errors, addrErr, stateErr) ==
    IF addrErr # Nil \/ stateErr # Nil
    THEN ErrorsAdd(ErrorsAdd(errors, addrErr), stateErr)
    ELSE errors

\* variant: the loop ends at the first slot with a failed call, and the state
\* of a slot whose address could not be set is not pushed
RECURSIVE PushModifiedAbort(_, _, _, _, _, _)
PushModifiedAbort(srvs, i, addrFail, stateFail, cs, errors) ==
    IF i > Len(srvs)
    THEN [calls |-> cs, errors |-> errors]
    ELSE IF ~ShouldPush(srvs[i])
         THEN PushModifiedAbort(srvs, i + 1, addrFail, stateFail, cs, errors)
         ELSE LET addrErr == IF i \in addrFail
                             THEN CallError("SetServerAddr", srvs[i].Name, MsgFailed) ELSE Nil
                  stateErr == IF i \in stateFail
                              THEN CallError("SetServerState", srvs[i].Name, MsgFailed) ELSE Nil
              IN  IF addrErr # Nil
                  THEN [calls |-> Append(cs, SrvCalls(srvs[i], addrErr, stateErr)[1]),
                        errors |-> ErrorsAdd(errors, addrErr)]
                  ELSE IF stateErr # Nil
                  THEN [calls |-> cs \o SrvCalls(srvs[i], addrErr, stateErr),
                        errors |-> ErrorsAdd(errors, stateErr)]
                  ELSE PushModifiedAbort(srvs, i + 1, addrFail, stateFail,
                                         cs \o SrvCalls(srvs[i], addrErr, stateErr), errors)

\* third loop: push every slot that is Modified
RECURSIVE PushModified(_, _, _, _, _, _)
PushModified(srvs, i, addrFail, stateFail, cs, errors) ==
    IF i > Len(srvs)
    THEN [calls |-> cs, errors |-> errors]
    ELSE IF ~ShouldPush(srvs[i])
         THEN PushModified(srvs, i + 1, addrFail, stateFail, cs, errors)
         ELSE LET addrErr == IF i \in addrFail
                             THEN CallError("SetServerAddr", srvs[i].Name, MsgFailed) ELSE Nil
                  stateErr == IF i \in stateFail
                              THEN CallError("SetServerState", srvs[i].Name, MsgFailed) ELSE Nil
              IN  PushModified(srvs, i + 1, addrFail, stateFail,
                               cs \o SrvCalls(srvs[i], addrErr, stateErr),
                               RecordErrors(errors, addrErr, stateErr))

FailedServers(cs) == {cs[k].server : k \in {j \in DOMAIN cs : cs[j].err # Nil}}

CalledServers(cs) == {cs[k].server : k \in DOMAIN cs}

\* ------------------------------------------------------------------------
\* scaleHAProxySrvs
\* ------------------------------------------------------------------------
\* variant: the explicit setting is looked up before the legacy ones
SlotAnnotationsExplicitFirst == <<"scale-server-slots", "servers-increment", "server-slots">>

\* the annotations the loop visits, in the order it visits them
SlotAnnotations == <<"servers-increment", "server-slots", "scale-server-slots">>

\* variant: a value that does not parse counts as a minimum of 1
RECURSIVE ResolveSrvSlotsLenient(_, _)
ResolveSrvSlotsLenient(ann, k) ==
    IF k > Len(SlotAnnotations)
    THEN 0
    ELSE LET annServerSlots == ann[SlotAnnotations[k]]
         IN  IF annServerSlots # <<>>
             THEN IF Atoi(annServerSlots).err THEN 1 ELSE Atoi(annServerSlots).value
             ELSE ResolveSrvSlotsLenient(ann, k + 1)

\* the loop over the slot-count annotations: the first one that is set and
\* parses gives srvSlots, which is 0 when none does
RECURSIVE ResolveSrvSlots(_, _)
ResolveSrvSlots(ann, k) ==
    IF k > Len(SlotAnnotations)
    THEN 0
    ELSE LET annServerSlots == ann[SlotAnnotations[k]]
         IN  IF annServerSlots # <<>> /\ ~Atoi(annServerSlots).err
             THEN Atoi(annServerSlots).value
             ELSE ResolveSrvSlots(ann, k + 1)

\* variant: the name is counted from 0
NewSrvNameFromZero(len) == SrvName(len)

\* Name of the slot appended to a pool of the given length
NewSrvName(len) == SrvName(len + 1)

\* &store.HAProxySrv{Name: ..., Address: "", Modified: true}
NewDisabledSrv(len) == HAProxySrv(NewSrvName(len), "", TRUE, 0)

\* &store.HAProxySrv{Name: ..., Address: addr, Modified: true, Port: Address.Port}
NewAddressSrv(len, addr, address) == HAProxySrv(NewSrvName(len), addr, TRUE, address.Port)

\* variant: the loop stops one slot short of srvSlots
RECURSIVE GrowToSlotsShort(_, _, _, _)
GrowToSlotsShort(srvs, dis, srvSlots, flag) ==
    IF Len(srvs) + 1 < srvSlots
    THEN GrowToSlotsShort(Append(srvs, NewDisabledSrv(Len(srvs))), Append(dis, Len(srvs) + 1),
                          srvSlots, TRUE)
    ELSE [srvs |-> srvs, disabled |-> dis, flag |-> flag]

\* for len(*HAProxySrvs) < srvSlots { append a disabled slot }
RECURSIVE GrowToSlots(_, _, _, _)
GrowToSlots(srvs, dis, srvSlots, flag) ==
    IF Len(srvs) < srvSlots
    THEN GrowToSlots(Append(srvs, NewDisabledSrv(Len(srvs))), Append(dis, Len(srvs) + 1),
                     srvSlots, TRUE)
    ELSE [srvs |-> srvs, disabled |-> dis, flag |-> flag]

\* disabled[0].Address = addr; .Modified = true; .Port = Address.Port
RecycleSrv(srv, addr, address) ==
    [srv EXCEPT !.Address = addr, !.Modified = TRUE, !.Port = address.Port]

\* variant: an address that finds no slot on the list is dropped from the set
RECURSIVE DrainAddressesDropping(_, _, _, _, _)
DrainAddressesDropping(srvs, addrs, dis, order, flag) ==
    IF order = <<>>
    THEN [srvs |-> srvs, addrs |-> addrs, flag |-> flag]
    ELSE LET addr == Head(order)
         IN  IF Len(dis) # 0
             THEN DrainAddressesDropping([srvs EXCEPT ![Head(dis)] =
                                             RecycleSrv(srvs[Head(dis)], addr, addrs[addr])],
                                         MapDelete(addrs, addr), Tail(dis), Tail(order), flag)
             ELSE DrainAddressesDropping(srvs, MapDelete(addrs, addr), dis, Tail(order), flag)

\* variant: appending a slot for an address does not set the flag
RECURSIVE DrainAddressesNoFlag(_, _, _, _, _)
DrainAddressesNoFlag(srvs, addrs, dis, order, flag) ==
    IF order = <<>>
    THEN [srvs |-> srvs, addrs |-> addrs, flag |-> flag]
    ELSE LET addr == Head(order)
         IN  IF Len(dis) # 0
             THEN DrainAddressesNoFlag([srvs EXCEPT ![Head(dis)] =
                                           RecycleSrv(srvs[Head(dis)], addr, addrs[addr])],
                                       MapDelete(addrs, addr), Tail(dis), Tail(order), flag)
             ELSE DrainAddressesNoFlag(Append(srvs, NewAddressSrv(Len(srvs), addr, addrs[addr])),
                                       MapDelete(addrs, addr), dis, Tail(order), flag)

\* for addr, Address := range *newAddresses { recycle or append; delete }
RECURSIVE DrainAddresses(_, _, _, _, _)
DrainAddresses(srvs, addrs, dis, order, flag) ==
    IF order = <<>>
    THEN [srvs |-> srvs, addrs |-> addrs, flag |-> flag]
    ELSE LET addr == Head(order)
         IN  IF Len(dis) # 0
             THEN DrainAddresses([srvs EXCEPT ![Head(dis)] = RecycleSrv(srvs[Head(dis)], addr, addrs[addr])],
                                 MapDelete(addrs, addr), Tail(dis), Tail(order), flag)
             ELSE DrainAddresses(Append(srvs, NewAddressSrv(Len(srvs), addr, addrs[addr])),
                                 MapDelete(addrs, addr), dis, Tail(order), TRUE)

\* [srvs, addrs, disabled, reload] of scaleHAProxySrvs
scaleHAProxySrvs(srvs, addrs, ann, order) ==
    LET srvSlots == ResolveSrvSlots(ann, 1)
        g == GrowToSlots(srvs, <<>>, srvSlots, FALSE)
        d == DrainAddresses(g.srvs, addrs, g.disabled, order, FALSE)
    IN  [srvs |-> d.srvs, addrs |-> d.addrs, disabled |-> g.disabled,
         reload |-> g.flag \/ d.flag]

\* ------------------------------------------------------------------------
\* models.Server, the server annotations and deep.Equal
\* ------------------------------------------------------------------------
MaxInter == 2         \* largest check interval and timeout tried, in seconds

\* a nil pointer, and &x for a variable x allocated at ref that holds val
NilPtr == [ref |-> 0, val |-> 0]

Ptr(ref, val) == [ref |-> ref, val |-> val]

\* the fields of models.Server the server annotations set
Server(name, inter, ssl, alpn, verify) ==
    [Name |-> name, Inter |-> inter, Ssl |-> ssl, Alpn |-> alpn, Verify |-> verify]

\* &models.Server{}
EmptyServer == Server("", NilPtr, "", "", "")

\* a *models.Server: nil, or a pointer to obj
NilServer == [nil |-> TRUE, obj |-> EmptyServer]

ServerPtr(obj) == [nil |-> FALSE, obj |-> obj]

\* ServerCheckInter.Update: a.server.Inter = &a.inter
ServerCheckInterUpdate(server, inter, ref) == [server EXCEPT !.Inter = Ptr(ref, inter)]

\* ServerSSL.Update
ServerSSLUpdate(server, enabled) ==
    IF enabled
    THEN [server EXCEPT !.Ssl = "enabled", !.Alpn = "h2,http/1.1", !.Verify = "none"]
    ELSE [server EXCEPT !.Ssl = "", !.Alpn = "", !.Verify = ""]

\* annotations.HandleServerAnnotations: every server annotation that is set is
\* parsed and applied to srv; ann.inter = 0 stands for check-interval not set
HandleServerAnnotations(server, ann, ref) ==
    LET s1 == IF ann.inter # 0 THEN ServerCheckInterUpdate(server, ann.inter * 1000, ref)
              ELSE server
    IN  IF ann.ssl # "" THEN ServerSSLUpdate(s1, ann.ssl = "true") ELSE s1

\* variant: two pointers are equal only when they are the same pointer
PtrDiffIdentity(a, b) == a # b

\* deep.Equal on two pointers: both nil, or both set and the values equal
PtrDiff(a, b) ==
    IF a = NilPtr \/ b = NilPtr THEN a # b ELSE a.val # b.val

\* deep.Equal(oldSrv, srv): the fields that differ, none when equal
ServerDiff(a, b) ==
    IF a.nil \/ b.nil
    THEN IF a.nil = b.nil THEN {} ELSE {"<nil pointer>"}
    ELSE {f \in {"Name", "Ssl", "Alpn", "Verify"} : a.obj[f] # b.obj[f]}
         \cup (IF PtrDiff(a.obj.Inter, b.obj.Inter) THEN {"Inter"} ELSE {})

\* ------------------------------------------------------------------------
\* updateHAProxySrv
\* ------------------------------------------------------------------------
\* variant: a slot without address is sent like any other, with the address
\* it has and out of maintenance
ServerSpecNoMaintenance(srv, srvSlot) ==
    [Name |-> srvSlot.Name, Address |-> srvSlot.Address, Port |-> srvSlot.Port,
     Maintenance |-> "disabled", Inter |-> srv.Inter, Ssl |-> srv.Ssl]

\* the models.Server sent for a slot: the template with the slot's fields
ServerSpec(srv, srvSlot) ==
    IF srvSlot.Address = ""
    THEN [Name |-> srvSlot.Name, Address |-> "127.0.0.1", Port |-> srvSlot.Port,
          Maintenance |-> "enabled", Inter |-> srv.Inter, Ssl |-> srv.Ssl]
    ELSE [Name |-> srvSlot.Name, Address |-> srvSlot.Address, Port |-> srvSlot.Port,
          Maintenance |-> "disabled", Inter |-> srv.Inter, Ssl |-> srv.Ssl]

BackendServerEdit(spec, err) ==
    [fn |-> "BackendServerEdit", server |-> spec.Name, spec |-> spec, err |-> err]

BackendServerCreate(spec, err) ==
    [fn |-> "BackendServerCreate", server |-> spec.Name, spec |-> spec, err |-> err]

\* variant: a missing server is not created
updateHAProxySrvNoCreate(srv, srvSlot, errAPI, errCreate) ==
    <<BackendServerEdit(ServerSpec(srv, srvSlot), errAPI)>>

\* the calls of updateHAProxySrv for one slot, given what the client answers
updateHAProxySrv(srv, srvSlot, errAPI, errCreate) ==
    LET spec == ServerSpec(srv, srvSlot)
    IN  IF errAPI = Nil
        THEN <<BackendServerEdit(spec, errAPI)>>
        ELSE IF Contains(errAPI.msg, <<"does", "not", "exist">>)
             THEN <<BackendServerEdit(spec, errAPI), BackendServerCreate(spec, errCreate)>>
             ELSE <<BackendServerEdit(spec, errAPI)>>

\* logger.Error(client.BackendServerCreate(...)): the errors written to the
\* log by the calls cs; the error of an edit is handed to no one
LoggedErrors(cs) ==
    {cs[k].err : k \in {j \in DOMAIN cs : cs[j].fn = "BackendServerCreate" /\ cs[j].err # Nil}}

\* what the client answers for one slot
Outcomes == {"ok", "created", "create failed", "edit failed"}

EditError(name, outcome) ==
    CASE outcome = "ok" -> Nil
      [] outcome = "edit failed" -> CallError("BackendServerEdit", name, MsgFailed)
      [] OTHER -> CallError("BackendServerEdit", name, MsgNotExist)

CreateError(name, outcome) ==
    IF outcome = "create failed"
    THEN CallError("BackendServerCreate", name, MsgFailed) ELSE Nil

\* variant: only the Modified slots are sent, whatever the backend and its options
ShouldUpdateModifiedOnly(srvSlot, newBackend, activeAnn) == srvSlot.Modified

\* if srvSlot.Modified || s.newBackend || srvsActiveAnn
ShouldUpdate(srvSlot, newBackend, activeAnn) ==
    srvSlot.Modified \/ newBackend \/ activeAnn

\* for _, srvSlot := range *HAProxySrvs { ... s.updateHAProxySrv(...) }
RECURSIVE UpdateSrvs(_, _, _, _, _, _, _)
UpdateSrvs(srv, srvs, i, newBackend, activeAnn, outcome, cs) ==
    IF i > Len(srvs)
    THEN cs
    ELSE IF ShouldUpdate(srvs[i], newBackend, activeAnn)
         THEN UpdateSrvs(srv, srvs, i + 1, newBackend, activeAnn, outcome,
                         cs \o updateHAProxySrv(srv, srvs[i],
                                                EditError(srvs[i].Name, outcome[i]),
                                                CreateError(srvs[i].Name, outcome[i])))
         ELSE UpdateSrvs(srv, srvs, i + 1, newBackend, activeAnn, outcome, cs)

\* ------------------------------------------------------------------------
\* handleGlobalConfig
\* ------------------------------------------------------------------------
MaxProcs == 2         \* runtime.GOMAXPROCS(0) of the machine

\* the field of models.Global the global annotations of the controller set
Global(nbthread) == [Nbthread |-> nbthread]

\* a field of models.Defaults set through a pointer, as CheckTimeout is
Defaults(checkTimeout) == [CheckTimeout |-> checkTimeout]

\* GlobalNbthread.Parse: [err, data]
GlobalNbthreadParse(input) ==
    LET a == Atoi(input)
    IN  IF a.err THEN [err |-> TRUE, data |-> 0]
        ELSE [err |-> FALSE, data |-> IF a.value > MaxProcs THEN MaxProcs ELSE a.value]

\* GlobalNbthread.Update: a.global.Nbthread = a.data
GlobalNbthreadUpdate(g, data) == [g EXCEPT !.Nbthread = data]

\* BackendTimeoutCheck.Update on the defaults section: the pointer is replaced
DefaultsTimeoutCheckUpdate(d, timeout, ref) == [d EXCEPT !.CheckTimeout = Ptr(ref, timeout)]

\* annotations.HandleGlobalAnnotations: every annotation that is set and parses
\* is applied; ann.timeout = 0 stands for timeout-check not set
HandleGlobalAnnotations(g, d, ann) ==
    LET p == GlobalNbthreadParse(ann.nbthread)
    IN  [global |-> IF ann.nbthread # <<>> /\ ~p.err THEN GlobalNbthreadUpdate(g, p.data)
                    ELSE g,
         defaults |-> IF ann.timeout # 0
                      THEN DefaultsTimeoutCheckUpdate(d, ann.timeout * 1000, 2) ELSE d]

\* variant: the snapshot is the object itself, so it follows every later write
CopyOfAliased(obj, written) == written

\* oldGlobal = *global: the value the object has now; `written` is the object
\* after the annotations were applied to it
CopyOf(obj, written) == obj

\* deep.Equal(&oldGlobal, global): the fields that differ
GlobalDiff(a, b) == {f \in {"Nbthread"} : a[f] # b[f]}

\* variant: the defaults are never found changed
DefaultsDiffNone(a, b) == {}

\* deep.Equal(&oldDefaults, defaults): the fields that differ
DefaultsDiff(a, b) == IF PtrDiff(a.CheckTimeout, b.CheckTimeout) THEN {"CheckTimeout"} ELSE {}

\* what the configuration file keeps of a pushed section: values, not pointers
Stored(d) ==
    [d EXCEPT !.CheckTimeout = IF d.CheckTimeout = NilPtr THEN NilPtr
                               ELSE Ptr(1, d.CheckTimeout.val)]

GlobalPushConfiguration(g, err) == [fn |-> "GlobalPushConfiguration", obj |-> g, err |-> err]

DefaultsPushConfiguration(d, err) == [fn |-> "DefaultsPushConfiguration", obj |-> d, err |-> err]

\* strings.Split(s, "/") on a string given as its characters
RECURSIVE SplitSlash(_, _, _)
SplitSlash(s, cur, acc) ==
    IF s = <<>> THEN Append(acc, cur)
    ELSE IF Head(s) = "/" THEN SplitSlash(Tail(s), <<>>, Append(acc, cur))
    ELSE SplitSlash(Tail(s), Append(cur, Head(s)), acc)

\* handleDefaultService: reload, given the value of default-backend-service,
\* whether the namespace and the service are in the store, and what
\* setDefaultService returns
handleDefaultService(in) ==
    LET dsvc == SplitSlash(in.dsvcData, <<>>, <<>>)
    IN  IF in.dsvcData = <<>> THEN FALSE
        ELSE IF Len(dsvc) # 2 THEN FALSE
        ELSE IF dsvc[1] = <<>> \/ dsvc[2] = <<>> THEN FALSE
        ELSE IF ~in.namespace THEN FALSE
        ELSE IF ~in.service THEN FALSE
        ELSE IF in.err THEN FALSE
        ELSE in.reload

\* handleGlobalConfig on the configuration cfg: [reload, restart, calls,
\* config, locals]; in.* are the annotations and the answers of the client
handleGlobalConfig(cfg, in) ==
    LET none == [oldGlobal |-> cfg.global, global |-> cfg.global,
                 oldDefaults |-> cfg.defaults, defaults |-> cfg.defaults]
        h == HandleGlobalAnnotations(cfg.global, cfg.defaults, in.ann)
        oldGlobal == CopyOf(cfg.global, h.global)
        oldDefaults == CopyOf(cfg.defaults, h.defaults)
        loc == [oldGlobal |-> oldGlobal, global |-> h.global,
                oldDefaults |-> oldDefaults, defaults |-> h.defaults]
        gChanged == GlobalDiff(oldGlobal, h.global) # {}
        dChanged == DefaultsDiff(oldDefaults, h.defaults) # {}
        gCalls == IF gChanged THEN <<GlobalPushConfiguration(h.global, in.pushGlobalErr)>>
                  ELSE <<>>
        dCalls == IF dChanged THEN <<DefaultsPushConfiguration(h.defaults, in.pushDefaultsErr)>>
                  ELSE <<>>
        gStored == IF gChanged THEN h.global ELSE cfg.global
    IN  IF in.getErr
        THEN [reload |-> FALSE, restart |-> FALSE, calls |-> <<>>, config |-> cfg,
              locals |-> none]
        ELSE IF gChanged /\ in.pushGlobalErr
        THEN [reload |-> FALSE, restart |-> FALSE, calls |-> gCalls, config |-> cfg,
              locals |-> loc]
        ELSE IF dChanged /\ in.pushDefaultsErr
        THEN [reload |-> FALSE, restart |-> FALSE, calls |-> gCalls \o dCalls,
              config |-> [global |-> gStored, defaults |-> cfg.defaults], locals |-> loc]
        ELSE [reload |-> handleDefaultService(in.dsvc) \/ dChanged, restart |-> gChanged,
              calls |-> gCalls \o dCalls,
              config |-> [global |-> gStored,
                          defaults |-> IF dChanged THEN Stored(h.defaults) ELSE cfg.defaults],
              locals |-> loc]

\* ------------------------------------------------------------------------
\* Inputs of a pass
\* ------------------------------------------------------------------------
MaxFailures == 2      \* SetServerAddr/SetServerState calls that may fail in one pass
MaxEditFailures == 1  \* slots whose edit may fail in one HandleEndpoints

\* s.backendName
SvcBackendName == "default-web-http"

AnnValues == {<<>>, <<"a", "b", "c">>} \cup {Itoa(n) : n \in 1..MaxSlots}

\* what GetValueFromAnnotations returns for the three slot-count annotations
PassAnnotations ==
    {[a \in {SlotAnnotations[k] : k \in 1..3} |->
        IF a = "scale-server-slots" THEN sc ELSE <<>>] : sc \in AnnValues \ {<<"a", "b", "c">>}}

\* every combination of values of the three slot-count annotations
SlotAnnotationSets == [{SlotAnnotations[k] : k \in 1..3} -> AnnValues]

\* the server annotations a pass may find
ServerAnnotations == [inter : 0..MaxInter, ssl : {"", "true"}]

\* what client.ServerGet("SRV_1", backend) returns: nil when there is no such
\* server, else the server options applied last
OldServers ==
    {NilServer} \cup
    {ServerPtr([HandleServerAnnotations(EmptyServer, [inter |-> n, ssl |-> ""], 1)
                  EXCEPT !.Name = <<"S", "R", "V", "_", "1">>]) : n \in 0..MaxInter}

\* the cases of (s.newBackend, oldSrv, server annotations); oldSrv is read only
\* when the backend is not new
TemplateCases ==
    {[newBackend |-> TRUE, oldSrv |-> NilServer, ann |-> a] : a \in ServerAnnotations}
    \cup {[newBackend |-> FALSE, oldSrv |-> o, ann |-> a] :
             o \in OldServers, a \in ServerAnnotations}

\* the template cases of a pass whose service carries no server annotation
PassTemplates ==
    {tc \in TemplateCases :
        tc.ann = [inter |-> 0, ssl |-> ""] /\ (tc.newBackend \/ ~tc.oldSrv.nil)}

\* what a handler that takes no input was handed
NoInputs ==
    [pool |-> <<>>, addresses |-> AddressMap(<<>>),
     annotations |-> [a \in {SlotAnnotations[k] : k \in 1..3} |-> <<>>],
     newBackend |-> FALSE, oldSrv |-> NilServer, srv |-> NilServer]

\* srv.Name = "SRV_1"; result := deep.Equal(oldSrv, srv); len(result) != 0
TemplateChanged(oldSrv, srv) ==
    ServerDiff(oldSrv, ServerPtr([srv EXCEPT !.Name = <<"S", "R", "V", "_", "1">>])) # {}

\* variant: a change of the server options alone asks for no reload
ReloadResultScaledOnly(scaled, activeAnn) == scaled

\* return srvsScaled || srvsActiveAnn
ReloadResult(scaled, activeAnn) == scaled \/ activeAnn

\* the values of the nbthread annotation tried
NbthreadValues == {<<>>, <<"a", "b", "c">>} \cup {Itoa(n) : n \in 0..(MaxProcs + 1)}

\* the global annotations a pass may find
GlobalAnnotations == [nbthread : NbthreadValues, timeout : 0..MaxInter]

\* default-backend-service and what the store and setDefaultService answer
DefaultServiceCases ==
    [dsvcData : {<<>>, <<"n", "s">>, <<"n", "s", "/", "w", "e", "b">>, <<"/", "w", "e", "b">>},
     namespace : BOOLEAN, service : BOOLEAN, err : BOOLEAN, reload : BOOLEAN]

\* the configuration HAProxy starts with
ConfigInit == [global |-> Global(0), defaults |-> Defaults(NilPtr)]

NoLocals ==
    [oldGlobal |-> Global(0), global |-> Global(0),
     oldDefaults |-> Defaults(NilPtr), defaults |-> Defaults(NilPtr)]

\* ------------------------------------------------------------------------
\* store objects and their Equal methods
\* ------------------------------------------------------------------------
\* m[name] on a Go map: the zero value "" when the key is missing
MapGet(m, name) == IF name \in DOMAIN m THEN m[name] ELSE ""

\* len(a.Annotations) != len(b.Annotations), then for every name of a:
\* value2 := b.Annotations[name]; value1 != value2
AnnotationsEqual(a, b) ==
    /\ Cardinality(DOMAIN a) = Cardinality(DOMAIN b)
    /\ \A name \in DOMAIN a : a[name] = MapGet(b, name)

\* a pointer to a store object: ref 0 is nil, otherwise the object allocated at ref
NilObj == [ref |-> 0, obj |-> <<>>]

Obj(ref, obj) == [ref |-> ref, obj |-> obj]

\* (a *IngressPath) Equal
IngressPathEqual(a, b) ==
    IF a.ref = 0 \/ b.ref = 0 THEN FALSE
    ELSE /\ a.obj.Path = b.obj.Path
         /\ a.obj.SvcName = b.obj.SvcName
         /\ a.obj.SvcPortInt = b.obj.SvcPortInt
         /\ a.obj.SvcPortString = b.obj.SvcPortString

\* (a *IngressRule) Equal
IngressRuleEqual(a, b) ==
    IF a.ref = 0 \/ b.ref = 0 THEN FALSE
    ELSE /\ a.obj.Host = b.obj.Host
         /\ Cardinality(DOMAIN a.obj.Paths) = Cardinality(DOMAIN b.obj.Paths)
         /\ \A key \in DOMAIN a.obj.Paths :
                /\ key \in DOMAIN b.obj.Paths
                /\ IngressPathEqual(a.obj.Paths[key], b.obj.Paths[key])

\* (a *IngressTLS) Equal
IngressTLSEqual(a, b) ==
    IF a.ref = 0 \/ b.ref = 0 THEN FALSE
    ELSE a.obj.Host = b.obj.Host /\ a.obj.SecretName = b.obj.SecretName

\* (a *Ingress) Equal
IngressEqual(a, b) ==
    IF a.ref = 0 \/ b.ref = 0 THEN FALSE
    ELSE /\ a.obj.Name = b.obj.Name
         /\ a.obj.Class = b.obj.Class
         /\ Cardinality(DOMAIN a.obj.Rules) = Cardinality(DOMAIN b.obj.Rules)
         /\ \A k \in DOMAIN a.obj.Rules :
                k \in DOMAIN b.obj.Rules /\ IngressRuleEqual(a.obj.Rules[k], b.obj.Rules[k])
         /\ Cardinality(DOMAIN a.obj.TLS) = Cardinality(DOMAIN b.obj.TLS)
         /\ \A k \in DOMAIN a.obj.TLS :
                k \in DOMAIN b.obj.TLS /\ IngressTLSEqual(a.obj.TLS[k], b.obj.TLS[k])
         /\ ~(/\ a.obj.DefaultBackend.ref # b.obj.DefaultBackend.ref
              /\ ~IngressPathEqual(a.obj.DefaultBackend, b.obj.DefaultBackend))
         /\ AnnotationsEqual(a.obj.Annotations, b.obj.Annotations)

\* (a *Service) Equal
ServiceEqual(a, b) ==
    IF a.ref = 0 \/ b.ref = 0 THEN FALSE
    ELSE /\ a.obj.Name = b.obj.Name
         /\ AnnotationsEqual(a.obj.Annotations, b.obj.Annotations)
         /\ Len(a.obj.Ports) = Len(b.obj.Ports)
         /\ \A index \in DOMAIN a.obj.Ports :
                /\ a.obj.Ports[index].Name = b.obj.Ports[index].Name
                /\ a.obj.Ports[index].Protocol = b.obj.Ports[index].Protocol
                /\ a.obj.Ports[index].Port = b.obj.Ports[index].Port

\* (a *ConfigMap) Equal
ConfigMapEqual(a, b) ==
    IF a.ref = 0 \/ b.ref = 0 THEN FALSE
    ELSE /\ a.obj.Name = b.obj.Name
         /\ AnnotationsEqual(a.obj.Annotations, b.obj.Annotations)

\* the annotation maps compared: up to two keys, a value may be empty
AnnotationKeys == {"check", "timeout-check"}

AnnotationMaps ==
    UNION {[keys -> {"", "2s"}] : keys \in {s \in SUBSET AnnotationKeys : Cardinality(s) <= 1}}
    \cup {[k \in AnnotationKeys |-> "2s"]}

ObjectNames == {"web", "api"}

StatusValues == {"", "MODIFIED"}

\* the config maps compared, a is the stored one and b the one of the event
ConfigMaps(ref, status) ==
    {NilObj} \cup
    {Obj(ref, [Name |-> n, Loaded |-> TRUE, Annotations |-> ann, Status |-> s]) :
        n \in ObjectNames, ann \in AnnotationMaps, s \in status}

ServicePorts ==
    {<<>>, <<[Name |-> "http", Protocol |-> "TCP", Port |-> 80]>>,
           <<[Name |-> "http", Protocol |-> "TCP", Port |-> 8080]>>}

Services(ref, status) ==
    {NilObj} \cup
    {Obj(ref, [Name |-> n, Ports |-> p, Annotations |-> ann, Status |-> s]) :
        n \in ObjectNames, p \in ServicePorts, ann \in AnnotationMaps, s \in status}

IngressPathTo(ref, svc) ==
    Obj(ref, [Path |-> "/", SvcName |-> svc, SvcPortInt |-> 80, SvcPortString |-> ""])

IngressRules(ref) ==
    {<<>>} \cup
    {[h \in {"example.com"} |->
        Obj(ref + 1, [Host |-> h, Paths |-> [p \in {"/"} |-> IngressPathTo(ref + 2, svc)]])] :
        svc \in ObjectNames}

IngressTLSs(ref) ==
    {<<>>, [h \in {"example.com"} |-> Obj(ref + 3, [Host |-> h, SecretName |-> "tls"])]}

\* DefaultBackend: nil, the path object both ingresses share, or one of its own
DefaultBackends(ref) == {NilObj, IngressPathTo(1, "web"), IngressPathTo(ref + 4, "web")}

Ingresses(ref, names, status) ==
    {NilObj} \cup
    {Obj(ref, [Name |-> n, Class |-> "haproxy", Annotations |-> ann, Rules |-> r,
               DefaultBackend |-> d, TLS |-> t, Status |-> s]) :
        n \in names, ann \in AnnotationMaps, r \in IngressRules(ref),
        d \in DefaultBackends(ref), t \in IngressTLSs(ref), s \in status}

\* ------------------------------------------------------------------------
\* frontend annotations of an ingress: basic authentication and CORS
\* ------------------------------------------------------------------------
\* ingress.Namespace + "-" + ingress.Name, the user list and the rule owner
IngressKey == "default-web"

\* strings.ReplaceAll(s, " ", "-")
ReplaceSpaces(s) == [i \in DOMAIN s |-> IF s[i] = " " THEN "-" ELSE s[i]]

\* strings.Join(strings.Fields(s), ""): s without its spaces
StripSpaces(s) == SelectSeq(s, LAMBDA ch : ch # " ")

\* strings.ToUpper on the letters the annotation values use
UpperChar(ch) ==
    CASE ch = "g" -> "G" [] ch = "e" -> "E" [] ch = "t" -> "T" [] ch = "p" -> "P"
      [] ch = "u" -> "U" [] ch = "x" -> "X" [] OTHER -> ch

ToUpper(s) == [i \in DOMAIN s |-> UpperChar(s[i])]

\* strings.Split(s, ","): the pieces between the commas, empty ones included
RECURSIVE SplitComma(_, _, _)
SplitComma(s, i, piece) ==
    IF i > Len(s) THEN <<piece>>
    ELSE IF s[i] = "," THEN <<piece>> \o SplitComma(s, i + 1, <<>>)
    ELSE SplitComma(s, i + 1, Append(piece, s[i]))

\* strings.Join(parts, ", ")
RECURSIVE JoinCommaSpace(_, _)
JoinCommaSpace(parts, i) ==
    IF i > Len(parts) THEN <<>>
    ELSE IF i = Len(parts) THEN parts[i]
    ELSE parts[i] \o <<",", " ">> \o JoinCommaSpace(parts, i + 1)

\* "\"" + s + "\""
Quoted(s) == <<"\"">> \o s \o <<"\"">>

\* a call on the client or on the rule store, and what it answered
Call(fn, arg, err) == [fn |-> fn, arg |-> arg, err |-> err]

\* the passwords of secret.Data with a trailing newline cut off
Credentials(data) ==
    [u \in DOMAIN data |->
        IF data[u][Len(data[u])] = "\n" THEN SubSeq(data[u], 1, Len(data[u]) - 1)
        ELSE data[u]]

\* handleRequestBasicAuth: the calls it issues, in order, for the annotation
\* values and the answers of the store and the client in `in`
handleRequestBasicAuth(in) ==
    IF in.authType = ""
    THEN <<Call("UserListExistsByGroup", [group |-> IngressKey, ok |-> in.exists], FALSE)>>
         \o (IF in.exists THEN <<Call("UserListDeleteByGroup", IngressKey, in.deleteErr)>>
             ELSE <<>>)
    ELSE LET fetched == in.authSecret # "" /\ in.secret.found
             credentials == IF fetched THEN Credentials(in.secret.Data) ELSE <<>>
             fetch == IF in.authSecret # ""
                      THEN <<Call("FetchSecret", in.authSecret, ~in.secret.found)>>
                      ELSE <<>>
             userlist == <<Call("UserListDeleteByGroup", IngressKey, in.deleteErr),
                           Call("UserListCreateByGroup",
                                [group |-> IngressKey, credentials |-> credentials],
                                in.createErr)>>
             realm == IF in.authRealm # <<>> THEN ReplaceSpaces(in.authRealm)
                      ELSE <<"P", "r", "o", "t", "e", "c", "t", "e", "d", "-",
                             "C", "o", "n", "t", "e", "n", "t">>
             reqBasicAuth == [Type |-> "ReqBasicAuth", Data |-> credentials,
                              AuthRealm |-> realm, AuthGroup |-> IngressKey]
         IN  fetch \o userlist
             \o (IF in.deleteErr \/ in.createErr THEN <<>>
                 ELSE <<Call("AddRule", reqBasicAuth, in.addErr)>>)

\* utils.GetBoolValue on the values tried
GetBoolValue(value) ==
    CASE value = "true" -> [value |-> TRUE, err |-> FALSE]
      [] value = "false" -> [value |-> FALSE, err |-> FALSE]
      [] OTHER -> [value |-> FALSE, err |-> TRUE]

\* utils.ParseTime on the values tried, in milliseconds
ParseTime(value) ==
    CASE value = "10s" -> [value |-> 10000, err |-> FALSE]
      [] value = "-1s" -> [value |-> 0 - 1000, err |-> FALSE]
      [] value = "-5s" -> [value |-> 0 - 5000, err |-> FALSE]
      [] OTHER -> [value |-> 0, err |-> TRUE]

\* rules.SetHdr{HdrName, HdrFormat, Response: true, CondTest}
SetHdr(name, format, acl) ==
    [Type |-> "SetHdr", HdrName |-> name, HdrFormat |-> format, Response |-> TRUE,
     CondTest |-> acl]

\* what AddRule answers for a rule: an error for the rules named in fails
RuleName(rule) == IF rule.Type = "SetHdr" THEN rule.HdrName ELSE rule.Type

AddRule(rule, fails) == <<Call("AddRule", rule, RuleName(rule) \in fails)>>

\* the zero value of acl
NoAcl == [var |-> <<>>, m |-> "", reg |-> ""]

\* fmt.Sprintf("%d", n)
Sprintd(n) == IF n < 0 THEN <<"-">> \o Itoa(0 - n) ELSE Itoa(n)

\* handleResponseCorsOrigin: the acl, the error and the calls
handleResponseCorsOrigin(ann, fails) ==
    IF ann.origin = ""
    THEN [acl |-> NoAcl, err |-> TRUE, calls |-> <<>>]
    ELSE LET originVar == <<"origin", ann.origin>>
             setVar == [Type |-> "ReqSetVar", Name |-> originVar, Scope |-> "txn",
                        Expression |-> "req.hdr(origin)"]
             found == [var |-> originVar, m |-> "found", reg |-> ""]
             acl == IF ann.origin # "*"
                    THEN [var |-> originVar, m |-> "reg", reg |-> ann.origin]
                    ELSE found
             resSetHdr == SetHdr("Access-Control-Allow-Origin",
                                 IF ann.origin # "*" THEN <<"var">> \o originVar ELSE <<"*">>,
                                 acl)
         IN  IF "ReqSetVar" \in fails
             THEN [acl |-> NoAcl, err |-> TRUE, calls |-> AddRule(setVar, fails)]
             ELSE [acl |-> acl, err |-> RuleName(resSetHdr) \in fails,
                   calls |-> AddRule(setVar, fails) \o AddRule(resSetHdr, fails)]

handleResponseCorsMethod(ann, acl, fails) ==
    IF ann.methods = <<>> THEN <<>>
    ELSE LET methods == [i \in DOMAIN SplitComma(StripSpaces(ann.methods), 1, <<>>) |->
                            ToUpper(SplitComma(StripSpaces(ann.methods), 1, <<>>)[i])]
             value == IF ann.methods # <<"*">> THEN Quoted(JoinCommaSpace(methods, 1))
                      ELSE ann.methods
         IN  AddRule(SetHdr("Access-Control-Allow-Methods", value, acl), fails)

handleResponseCorsCredential(ann, acl, fails) ==
    IF ann.credentials = "" THEN <<>>
    ELSE IF GetBoolValue(ann.credentials).err \/ ~GetBoolValue(ann.credentials).value
    THEN <<>>
    ELSE AddRule(SetHdr("Access-Control-Allow-Credentials", Quoted(<<"t", "r", "u", "e">>),
                        acl), fails)

handleResponseCorsHeaders(ann, acl, fails) ==
    IF ann.headers = <<>> THEN <<>>
    ELSE AddRule(SetHdr("Access-Control-Allow-Headers", Quoted(StripSpaces(ann.headers)),
                        acl), fails)

handleResponseCorsMaxAge(ann, acl, fails) ==
    IF ann.maxAge = "" THEN <<>>
    ELSE IF ParseTime(ann.maxAge).err THEN <<>>
    ELSE LET maxage == ParseTime(ann.maxAge).value \div 1000
         IN  IF maxage < 0 - 1 THEN <<>>
             ELSE AddRule(SetHdr("Access-Control-Max-Age", Quoted(Sprintd(maxage)), acl), fails)

\* variant: the header rules are added whatever handleResponseCorsOrigin returned
handleResponseCorsUngated(ann, fails) ==
    LET o == handleResponseCorsOrigin(ann, fails)
    IN  o.calls \o handleResponseCorsMethod(ann, o.acl, fails)
        \o handleResponseCorsCredential(ann, o.acl, fails)
        \o handleResponseCorsHeaders(ann, o.acl, fails)
        \o handleResponseCorsMaxAge(ann, o.acl, fails)

\* handleResponseCors: the AddRule calls it issues, in order
handleResponseCors(ann, fails) ==
    IF ann.enable = "" THEN <<>>
    ELSE IF GetBoolValue(ann.enable).err THEN <<>>
    ELSE IF ~GetBoolValue(ann.enable).value THEN <<>>
    ELSE LET o == handleResponseCorsOrigin(ann, fails)
         IN  IF o.err THEN o.calls
             ELSE o.calls \o handleResponseCorsMethod(ann, o.acl, fails)
                  \o handleResponseCorsCredential(ann, o.acl, fails)
                  \o handleResponseCorsHeaders(ann, o.acl, fails)
                  \o handleResponseCorsMaxAge(ann, o.acl, fails)

\* ------------------------------------------------------------------------
\* Initial state: nothing stored for the backend yet
\* ------------------------------------------------------------------------
Init ==
    /\ pool = <<>>
    /\ newAddresses = AddressMap(<<>>)
    /\ BackendName = ""
    /\ DNS \in {"", "db.example.com"}
    /\ calls = <<>>
    /\ result = ErrorsResult(<<>>)
    /\ reload = FALSE
    /\ disabled = <<>>
    /\ liveIn = <<>>
    /\ pushFailed = {}
    /\ lastOp = "Idle"
    /\ given = NoInputs
    /\ srvsScaled = FALSE
    /\ srvsActiveAnn = FALSE
    /\ config = ConfigInit
    /\ locals = NoLocals
    /\ restart = FALSE

\* ------------------------------------------------------------------------
\* Actions
\* ------------------------------------------------------------------------
\* the endpoint collaborator refreshes the Address Set
SetAddresses ==
    /\ lastOp = "Idle"
    /\ \E m \in AddressSets : newAddresses' = AddressMap(m)
    /\ liveIn' = IF liveIn = <<newAddresses'>> THEN liveIn ELSE <<>>
    /\ UNCHANGED <<pool, BackendName, DNS, pushFailed, calls, result, reload, disabled, lastOp,
                   given, srvsScaled, srvsActiveAnn, config, locals, restart>>

\* end of a reconciliation cycle: the dirty flag of every slot is reset,
\* except for the slots whose push failed
Clean ==
    /\ lastOp = "Idle"
    /\ pool' = [i \in DOMAIN pool |-> [pool[i] EXCEPT !.Modified = pool[i].Name \in pushFailed]]
    /\ UNCHANGED <<newAddresses, BackendName, DNS, liveIn, pushFailed, calls, result, reload,
                   disabled, lastOp, given, srvsScaled, srvsActiveAnn, config, locals,
                   restart>>

\* the caller of a handler logs what it returned and proceeds
Proceed ==
    /\ lastOp # "Idle"
    /\ calls' = <<>>
    /\ result' = ErrorsResult(<<>>)
    /\ reload' = FALSE
    /\ disabled' = <<>>
    /\ lastOp' = "Idle"
    /\ given' = NoInputs
    /\ srvsScaled' = FALSE
    /\ srvsActiveAnn' = FALSE
    /\ restart' = FALSE
    /\ locals' = NoLocals
    /\ UNCHANGED <<pool, newAddresses, BackendName, DNS, liveIn, pushFailed, config>>

\* SyncBackendSrvs called before the backend has a name: returns nil; op is
\* the step after which the caller runs the handler
SyncNoBackendAfter(op) ==
    /\ lastOp = op
    /\ BackendName = ""
    /\ calls' = <<>>
    /\ result' = ErrorsResult(<<>>)
    /\ reload' = FALSE
    /\ disabled' = <<>>
    /\ liveIn' = <<newAddresses>>
    /\ lastOp' = "Sync"
    /\ UNCHANGED <<pool, newAddresses, BackendName, DNS, pushFailed, given, srvsScaled,
                   srvsActiveAnn, config, locals, restart>>

SyncNoBackend == SyncNoBackendAfter("Idle")

SyncBackendSrvsAfter(op) ==
    /\ lastOp = op
    /\ BackendName # ""
    /\ \E d \in {DisableStale(pool, newAddresses, 1, <<>>)} :
       \E order \in RangeOrders(DOMAIN d.addrs) :
       \E a \in {AssignNew(d.srvs, d.addrs, d.disabled, order)} :
       \E addrFail \in SUBSET ModifiedIdx(a.srvs) :
       \E stateFail \in SUBSET ModifiedIdx(a.srvs) :
         /\ Cardinality(addrFail) + Cardinality(stateFail) <= MaxFailures
         /\ \E p \in {PushModified(a.srvs, 1, addrFail, stateFail, <<>>, <<>>)} :
              /\ pool' = a.srvs
              /\ newAddresses' = a.addrs
              /\ calls' = p.calls
              /\ result' = ErrorsResult(p.errors)
              /\ disabled' = d.disabled
              /\ pushFailed' = FailedServers(p.calls) \cup (pushFailed \ CalledServers(p.calls))
    /\ liveIn' = <<newAddresses>>
    /\ reload' = FALSE
    /\ lastOp' = "Sync"
    /\ UNCHANGED <<BackendName, DNS, given, srvsScaled, srvsActiveAnn, config, locals,
                   restart>>

SyncBackendSrvs == SyncBackendSrvsAfter("Idle")

\* HandleEndpoints when the namespace of the service is not in the store
HandleEndpointsNoNamespace ==
    /\ lastOp = "Idle"
    /\ BackendName = ""
    /\ calls' = <<>>
    /\ result' = ErrorsResult(<<>>)
    /\ reload' = FALSE
    /\ disabled' = <<>>
    /\ lastOp' = "HandleEndpointsNoNamespace"
    /\ UNCHANGED <<pool, newAddresses, BackendName, DNS, liveIn, pushFailed, given, srvsScaled,
                   srvsActiveAnn, config, locals, restart>>

\* HandleEndpoints for the slot-count annotations anns and the template cases
\* tcs, run by the caller after the step op
HandleEndpointsAfter(op, anns, tcs) ==
    /\ lastOp = op
    /\ \E ann \in (IF DNS = "" THEN anns ELSE {CHOOSE x \in anns : TRUE}) :
       \E order \in RangeOrders(DOMAIN newAddresses) :
       \E scaled \in {IF DNS = ""
                      THEN scaleHAProxySrvs(pool, newAddresses, ann, order)
                      ELSE [srvs |-> pool, addrs |-> newAddresses, disabled |-> <<>>,
                            reload |-> FALSE]} :
         /\ Len(scaled.srvs) <= MaxPool
         /\ \E tc \in tcs :
            \E srv \in {HandleServerAnnotations(EmptyServer, tc.ann, 2)} :
            \E activeAnn \in {~tc.newBackend /\ TemplateChanged(tc.oldSrv, srv)} :
            \E pushed \in {{i \in DOMAIN scaled.srvs :
                              ShouldUpdate(scaled.srvs[i], tc.newBackend, activeAnn)}} :
            \E bad \in {b \in SUBSET pushed : Cardinality(b) <= MaxEditFailures} :
            \E answer \in [bad -> Outcomes \ {"ok"}] :
            \E outcome \in {[i \in DOMAIN scaled.srvs |->
                               IF i \in bad THEN answer[i] ELSE "ok"]} :
              /\ calls' = UpdateSrvs(srv, scaled.srvs, 1, tc.newBackend, activeAnn,
                                     outcome, <<>>)
              /\ reload' = ReloadResult(scaled.reload, activeAnn)
              /\ srvsActiveAnn' = activeAnn
              /\ given' = [pool |-> pool, addresses |-> newAddresses, annotations |-> ann,
                           newBackend |-> tc.newBackend, oldSrv |-> tc.oldSrv,
                           srv |-> ServerPtr(srv)]
         /\ pool' = scaled.srvs
         /\ newAddresses' = scaled.addrs
         /\ disabled' = scaled.disabled
         /\ srvsScaled' = scaled.reload
    /\ BackendName' = SvcBackendName
    /\ result' = ErrorsResult(<<>>)
    /\ liveIn' = <<>>
    /\ lastOp' = "HandleEndpoints"
    /\ UNCHANGED <<DNS, pushFailed, config, locals, restart>>

HandleEndpointsWith(anns, tcs) == HandleEndpointsAfter("Idle", anns, tcs)

HandleEndpoints == HandleEndpointsWith(PassAnnotations, PassTemplates)

\* HandleEndpoints for a service with server annotations and no slot-count annotation
HandleEndpointsTemplate ==
    HandleEndpointsWith({[a \in {SlotAnnotations[k] : k \in 1..3} |-> <<>>]}, TemplateCases)

HandleGlobalConfig ==
    /\ lastOp = "Idle"
    /\ \E ann \in GlobalAnnotations :
       \E getErr, pushGlobalErr, pushDefaultsErr \in BOOLEAN :
       \E dsvc \in DefaultServiceCases :
       \E r \in {handleGlobalConfig(config,
                    [ann |-> ann, getErr |-> getErr, pushGlobalErr |-> pushGlobalErr,
                     pushDefaultsErr |-> pushDefaultsErr, dsvc |-> dsvc])} :
         /\ reload' = r.reload
         /\ restart' = r.restart
         /\ calls' = r.calls
         /\ config' = r.config
         /\ locals' = r.locals
    /\ lastOp' = "handleGlobalConfig"
    /\ UNCHANGED <<pool, newAddresses, BackendName, DNS, result, disabled, liveIn, pushFailed,
                   given, srvsScaled, srvsActiveAnn>>

Next ==
    \/ SetAddresses
    \/ Clean
    \/ Proceed
    \/ SyncNoBackend
    \/ SyncBackendSrvs
    \/ HandleEndpointsNoNamespace
    \/ HandleEndpoints

Spec == Init /\ [][Next]_vars

\* HandleEndpoints for every combination of the slot-count annotations, on a
\* backend that is not new and whose server options are unchanged
HandleEndpointsScale ==
    HandleEndpointsWith(SlotAnnotationSets,
                        {tc \in PassTemplates :
                            ~tc.newBackend /\ tc.oldSrv.obj.Inter = NilPtr})

\* the backend of a service with endpoints, scaled under every slot-count setting
InitScale == Init /\ DNS = ""

NextScale ==
    \/ SetAddresses
    \/ HandleEndpointsScale
    \/ Proceed

SpecScale == InitScale /\ [][NextScale]_vars

\* the configuration cycle of a service of type ExternalName: the global
\* configuration, then the backend of the service
InitGlobal == Init /\ DNS # ""

NextGlobal ==
    \/ HandleGlobalConfig
    \/ HandleEndpointsTemplate
    \/ Proceed

SpecGlobal == InitGlobal /\ [][NextGlobal]_vars

\* the reconciliation loop on the backend of a service with endpoints: in each
\* cycle the Address Set is refreshed, SyncBackendSrvs reconciles the pool
\* with it at run time, HandleEndpoints scales the pool for what is left of
\* the set and writes the servers, and the cycle ends
RefreshAddresses ==
    /\ lastOp = "Idle"
    /\ \E m \in AddressSets : newAddresses' = AddressMap(m)
    /\ liveIn' = <<>>
    /\ lastOp' = "SetAddresses"
    /\ UNCHANGED <<pool, BackendName, DNS, pushFailed, calls, result, reload, disabled,
                   given, srvsScaled, srvsActiveAnn, config, locals, restart>>

\* the end of a cycle: what the handlers returned is dropped and the dirty
\* flag of every slot is reset, except for the slots whose push failed
EndCycle ==
    /\ lastOp = "HandleEndpoints"
    /\ pool' = [i \in DOMAIN pool |-> [pool[i] EXCEPT !.Modified = pool[i].Name \in pushFailed]]
    /\ calls' = <<>>
    /\ result' = ErrorsResult(<<>>)
    /\ reload' = FALSE
    /\ disabled' = <<>>
    /\ lastOp' = "Idle"
    /\ given' = NoInputs
    /\ srvsScaled' = FALSE
    /\ srvsActiveAnn' = FALSE
    /\ UNCHANGED <<newAddresses, BackendName, DNS, liveIn, pushFailed, config, locals,
                   restart>>

\* the template cases of a backend that is not new and whose server options
\* are the ones applied last
UnchangedTemplates ==
    {tc \in PassTemplates : ~tc.newBackend /\ tc.oldSrv.obj.Inter = NilPtr}

InitLoop == Init /\ DNS = ""

NextLoop ==
    \/ RefreshAddresses
    \/ SyncNoBackendAfter("SetAddresses")
    \/ SyncBackendSrvsAfter("SetAddresses")
    \/ HandleEndpointsAfter("Sync", PassAnnotations, UnchangedTemplates)
    \/ EndCycle

\* the loop never stops: every step of a cycle that can be taken is taken
SpecLoop ==
    /\ InitLoop
    /\ [][NextLoop]_vars
    /\ WF_vars(RefreshAddresses)
    /\ WF_vars(SyncNoBackendAfter("SetAddresses"))
    /\ WF_vars(SyncBackendSrvsAfter("SetAddresses"))
    /\ WF_vars(HandleEndpointsAfter("Sync", PassAnnotations, UnchangedTemplates))
    /\ WF_vars(EndCycle)

\* the event handlers of the store compare the stored object with the one of
\* the event: a is the stored object, b the new one
CompareConfigMaps ==
    /\ lastOp = "Idle"
    /\ \E a \in ConfigMaps(10, {""}) : \E b \in ConfigMaps(20, StatusValues) :
         /\ given' = [a |-> a, b |-> b]
         /\ result' = ConfigMapEqual(a, b)
    /\ lastOp' = "ConfigMap.Equal"
    /\ UNCHANGED <<pool, newAddresses, BackendName, DNS, calls, reload, disabled, liveIn,
                   pushFailed, srvsScaled, srvsActiveAnn, config, locals, restart>>

CompareServices ==
    /\ lastOp = "Idle"
    /\ \E a \in Services(10, {""}) : \E b \in Services(20, StatusValues) :
         /\ given' = [a |-> a, b |-> b]
         /\ result' = ServiceEqual(a, b)
    /\ lastOp' = "Service.Equal"
    /\ UNCHANGED <<pool, newAddresses, BackendName, DNS, calls, reload, disabled, liveIn,
                   pushFailed, srvsScaled, srvsActiveAnn, config, locals, restart>>

CompareIngresses ==
    /\ lastOp = "Idle"
    /\ \E a \in Ingresses(10, {"web"}, {""}) : \E b \in Ingresses(20, ObjectNames, StatusValues) :
         /\ given' = [a |-> a, b |-> b]
         /\ result' = IngressEqual(a, b)
    /\ lastOp' = "Ingress.Equal"
    /\ UNCHANGED <<pool, newAddresses, BackendName, DNS, calls, reload, disabled, liveIn,
                   pushFailed, srvsScaled, srvsActiveAnn, config, locals, restart>>

InitEqual == Init /\ DNS = ""

NextEqual ==
    \/ CompareConfigMaps
    \/ CompareServices
    \/ CompareIngresses
    \/ Proceed

SpecEqual == InitEqual /\ [][NextEqual]_vars

\* the annotation values and the answers of the store and the client that
\* handleRequestBasicAuth may find; a password is never empty
BasicAuthInputs ==
    [authType : {"", "basic-auth", "digest"},
     authSecret : {"", "creds"},
     authRealm : {<<>>, <<"M", "y", " ", "A", "p", "p">>},
     exists : BOOLEAN,
     secret : {[found |-> FALSE, Status |-> "", Data |-> <<>>]} \cup
              {[found |-> TRUE, Status |-> st, Data |-> [u \in {"admin"} |-> pwd]] :
                  st \in {"", "DELETED"}, pwd \in {<<"p", "w">>, <<"p", "w", "\n">>}},
     deleteErr : BOOLEAN, createErr : BOOLEAN, addErr : BOOLEAN]

HandleRequestBasicAuth ==
    /\ lastOp = "Idle"
    /\ \E in \in BasicAuthInputs :
         /\ given' = in
         /\ calls' = handleRequestBasicAuth(in)
    /\ lastOp' = "handleRequestBasicAuth"
    /\ UNCHANGED <<pool, newAddresses, BackendName, DNS, result, reload, disabled, liveIn,
                   pushFailed, srvsScaled, srvsActiveAnn, config, locals, restart>>

\* the CORS annotations of an ingress
CorsAnnotations ==
    [enable : {"", "true", "false", "maybe"},
     origin : {"", "*", "example.com"},
     methods : {<<>>, <<"*">>, <<"g", "e", "t", ",", " ", "P", "U", "T">>},
     credentials : {"", "true", "false", "maybe"},
     headers : {<<>>, <<"X", "-", "A", ",", " ", "X", "-", "B">>},
     maxAge : {"", "10s", "-1s", "-5s", "abc"}]

MaxRuleFailures == 1  \* AddRule calls that may fail in one handleResponseCors

\* the rules AddRule may refuse
RuleNames ==
    {"ReqSetVar", "Access-Control-Allow-Origin", "Access-Control-Allow-Methods",
     "Access-Control-Allow-Credentials", "Access-Control-Allow-Headers",
     "Access-Control-Max-Age"}

HandleResponseCors ==
    /\ lastOp = "Idle"
    /\ \E ann \in CorsAnnotations :
       \E fails \in {f \in SUBSET RuleNames : Cardinality(f) <= MaxRuleFailures} :
         /\ given' = [ann |-> ann, fails |-> fails]
         /\ calls' = handleResponseCors(ann, fails)
    /\ lastOp' = "handleResponseCors"
    /\ UNCHANGED <<pool, newAddresses, BackendName, DNS, result, reload, disabled, liveIn,
                   pushFailed, srvsScaled, srvsActiveAnn, config, locals, restart>>

\* handleIngressAnnotations on one ingress
InitFrontend == Init /\ DNS = ""

NextFrontend ==
    \/ HandleRequestBasicAuth
    \/ HandleResponseCors
    \/ Proceed

SpecFrontend == InitFrontend /\ [][NextFrontend]_vars

\* ------------------------------------------------------------------------
\* Properties
\* ------------------------------------------------------------------------
Range(q) == {q[k] : k \in DOMAIN q}

CallsOf(cs, fn, name) == {k \in DOMAIN cs : cs[k].fn = fn /\ cs[k].server = name}

SlotOf(srvs, name) == {i \in DOMAIN srvs : srvs[i].Name = name}

\* C1: over every step of every handler, a slot that exists keeps its Name.
SlotNameStable ==
    [][\A i \in DOMAIN pool : i \in DOMAIN pool' => pool'[i].Name = pool[i].Name]_vars

\* a pass of SyncBackendSrvs has just handed a slot it disabled to a new address
SlotReassigned ==
    /\ lastOp = "Sync"
    /\ \E k \in DOMAIN disabled :
         /\ pool[disabled[k]].Address # ""
         /\ pool[disabled[k]].Name = SrvName(disabled[k])

\* C2: no step makes the pool shorter; a slot that loses its address stays in
\* the pool with Address = "".
PoolNeverShrinks ==
    [][/\ Len(pool') >= Len(pool)
       /\ lastOp' = "Sync" =>
            \A i \in DOMAIN pool :
               pool[i].Address \notin DOMAIN newAddresses =>
                  i \in DOMAIN pool' /\ pool'[i].Address \in {""} \cup DOMAIN newAddresses]_vars

\* a pass has disabled a slot that once held an address, and the slot is still there
SlotDisabledInPlace ==
    /\ lastOp = "Sync"
    /\ \E k \in DOMAIN disabled :
         /\ pool[disabled[k]].Address = ""
         /\ pool[disabled[k]].Port # 0
         /\ Len(pool) >= 2

\* C3: a pass of SyncBackendSrvs that is given the Address Set the previous
\* pass was given, on a pool no handler touched in between and whose slots are
\* all clean, marks no slot Modified and issues no control-plane call.
SyncIdempotent ==
    [][(lastOp' = "Sync" /\ liveIn = <<newAddresses>> /\ ModifiedIdx(pool) = {})
          => (calls' = <<>> /\ ModifiedIdx(pool') = {})]_vars

\* C4: in a pass of SyncBackendSrvs a slot whose address is not in the Address
\* Set is marked Modified, ends the pass either disabled or holding an address
\* of that set, and is on the list of reusable slots; that list is in pool
\* order and the slots of it that received an address are its first ones.
DisableBeforeReuse ==
    [][(lastOp' = "Sync" /\ BackendName # "") =>
          /\ \A i \in DOMAIN pool :
                pool[i].Address \notin DOMAIN newAddresses =>
                   /\ i \in Range(disabled')
                   /\ pool'[i].Modified
                   /\ \/ pool'[i].Address = ""
                      \/ /\ pool'[i].Address \in DOMAIN newAddresses
                         /\ pool'[i].Address \notin DOMAIN newAddresses'
                         /\ pool'[i].Port = newAddresses[pool'[i].Address].Port
          /\ \A k, l \in DOMAIN disabled' :
                k < l => /\ disabled'[k] < disabled'[l]
                         /\ pool'[disabled'[l]].Address # "" => pool'[disabled'[k]].Address # ""]_vars

\* a pass reused the first of two reusable slots and left the second disabled
FirstReusableTaken ==
    /\ lastOp = "Sync"
    /\ Len(disabled) >= 2
    /\ pool[disabled[1]].Address # ""
    /\ pool[disabled[2]].Address = ""
    /\ pool[disabled[2]].Port # 0

\* C5: after a pass of SyncBackendSrvs every Modified slot has received exactly
\* one SetServerAddr and one SetServerState call, and a slot that is not
\* Modified has received no call.
OnlyDirtyPushed ==
    lastOp = "Sync" =>
       /\ \A i \in DOMAIN pool :
             /\ Cardinality(CallsOf(calls, "SetServerAddr", pool[i].Name))
                   = (IF pool[i].Modified THEN 1 ELSE 0)
             /\ Cardinality(CallsOf(calls, "SetServerState", pool[i].Name))
                   = (IF pool[i].Modified THEN 1 ELSE 0)
       /\ \A k \in DOMAIN calls :
             /\ calls[k].fn \in {"SetServerAddr", "SetServerState"}
             /\ SlotOf(pool, calls[k].server) # {}

\* a pass pushed one slot and skipped a clean one
DirtyAndCleanSlots ==
    /\ lastOp = "Sync"
    /\ \E i, j \in DOMAIN pool : pool[i].Modified /\ ~pool[j].Modified
    /\ calls # <<>>

\* C6: in the calls of a pass, the SetServerState call of a slot comes after
\* the SetServerAddr call of that slot.
AddrBeforeState ==
    lastOp = "Sync" =>
       \A k \in DOMAIN calls :
          calls[k].fn = "SetServerState" =>
             /\ \E l \in 1..(k - 1) :
                   calls[l].fn = "SetServerAddr" /\ calls[l].server = calls[k].server
             /\ \A l \in DOMAIN calls :
                   (calls[l].fn = "SetServerAddr" /\ calls[l].server = calls[k].server) => l < k

\* a pass set two servers ready
TwoServersSetReady ==
    /\ lastOp = "Sync"
    /\ Cardinality({k \in DOMAIN calls :
                      calls[k].fn = "SetServerState" /\ calls[k].state = "ready"}) >= 2

\* C7: a disabled slot is pushed as 127.0.0.1, port 0, maint; an enabled slot
\* with its own address and port, ready.
PushedTargetState ==
    lastOp = "Sync" =>
       \A k \in DOMAIN calls : \A i \in SlotOf(pool, calls[k].server) :
          IF pool[i].Address = ""
          THEN IF calls[k].fn = "SetServerAddr"
               THEN calls[k].ip = "127.0.0.1" /\ calls[k].port = 0
               ELSE calls[k].state = "maint"
          ELSE IF calls[k].fn = "SetServerAddr"
               THEN calls[k].ip = pool[i].Address /\ calls[k].port = pool[i].Port
               ELSE calls[k].state = "ready"

\* a pass pushed a disabled slot that still carries a port, and an enabled slot
DisabledAndEnabledPushed ==
    /\ lastOp = "Sync"
    /\ \E i, j \in DOMAIN pool :
         /\ pool[i].Address = "" /\ pool[i].Port # 0
         /\ CallsOf(calls, "SetServerAddr", pool[i].Name) # {}
         /\ pool[j].Address # "" /\ pool[j].Port = 8080
         /\ CallsOf(calls, "SetServerState", pool[j].Name) # {}

\* C8: a slot with a failed call is still Modified when the pass ends, and the
\* next pass of SyncBackendSrvs pushes every slot whose last push failed.
FailedPushRetried ==
    [][lastOp' = "Sync" =>
          /\ \A i \in DOMAIN pool' :
                pool'[i].Name \in FailedServers(calls') => pool'[i].Modified
          /\ \A name \in pushFailed :
                /\ CallsOf(calls', "SetServerAddr", name) # {}
                /\ CallsOf(calls', "SetServerState", name) # {}]_vars

\* a call failed for a slot whose Modified flag was inherited from before the
\* pass, and the slot is still Modified
InheritedSlotFailed ==
    /\ lastOp = "Sync"
    /\ \E i \in DOMAIN pool :
         /\ pool[i].Name \in FailedServers(calls)
         /\ i \notin Range(disabled)
         /\ pool[i].Address # ""
         /\ pool[i].Modified

\* C9: SyncBackendSrvs returns nil exactly when no call of the pass failed;
\* otherwise the error returned holds the error of every failed call of the
\* pass, and nothing else.
ErrorsAggregated ==
    lastOp = "Sync" =>
       /\ result.nil <=> (\A k \in DOMAIN calls : calls[k].err = Nil)
       /\ \A k \in DOMAIN calls : calls[k].err # Nil => calls[k].err \in Range(result.errors)
       /\ \A e \in Range(result.errors) : \E k \in DOMAIN calls : calls[k].err = e
       /\ Len(result.errors) = Cardinality({k \in DOMAIN calls : calls[k].err # Nil})

\* a pass in which a call failed for each of two slots, one of them only for the address
TwoFailuresReturned ==
    /\ lastOp = "Sync"
    /\ Len(result.errors) = 2
    /\ result.errors[1].server # result.errors[2].server
    /\ result.errors[1].fn = "SetServerAddr"

\* C10: the slot at position i of the pool is named SRV_i.
DenseSlotNames ==
    \A i \in DOMAIN pool : pool[i].Name = <<"S", "R", "V", "_">> \o Itoa(i)

\* a pool of three slots, the third named SRV_3
ThreeNamedSlots ==
    /\ Len(pool) >= 3
    /\ pool[3].Name = <<"S", "R", "V", "_", "3">>
    /\ pool[1].Address # "" /\ pool[2].Address = ""

\* the slots of the pool that hold the address a
Holding(srvs, a) == {i \in DOMAIN srvs : srvs[i].Address = a}

\* the positions HandleEndpoints appended to the pool it was handed
Appended == (Len(given.pool) + 1)..Len(pool)

ScaleRan == lastOp = "HandleEndpoints" /\ DNS = ""

\* C11: when scaleHAProxySrvs returns, the pool has at least srvSlots slots;
\* the slots it appended to reach srvSlots are the next positions of the pool,
\* are Modified, and those of them that received no address have Address = ""
\* and no port; and no later step makes the pool shorter.
MinimumPoolSize ==
    [][/\ Len(pool') >= Len(pool)
       /\ (lastOp' = "HandleEndpoints" /\ DNS = "") =>
            LET srvSlots == ResolveSrvSlots(given'.annotations, 1)
                added == IF srvSlots > Len(pool) THEN srvSlots - Len(pool) ELSE 0
            IN  /\ Len(pool') >= srvSlots
                /\ disabled' = [k \in 1..added |-> Len(pool) + k]
                /\ \A k \in 1..added :
                      /\ pool'[Len(pool) + k].Modified
                      /\ IF k <= Cardinality(DOMAIN newAddresses)
                         THEN pool'[Len(pool) + k].Address \in DOMAIN newAddresses
                         ELSE pool'[Len(pool) + k].Address = "" /\ pool'[Len(pool) + k].Port = 0]_vars

\* an empty pool was scaled to two slots for one address: the first slot holds
\* the address, the second is disabled and Modified
ScaledToMinimum ==
    /\ ScaleRan
    /\ given.pool = <<>>
    /\ DOMAIN given.addresses = {"10.0.0.1"}
    /\ Len(pool) = 2
    /\ pool[1].Address = "10.0.0.1"
    /\ pool[2].Address = "" /\ pool[2].Modified
    /\ reload

\* C12: when scaleHAProxySrvs returns, the Address Set is empty and every entry
\* that was in it is held by exactly one slot of the pool, which has the port
\* of the entry and is Modified.
ScaleDrainsAddressSet ==
    ScaleRan =>
       /\ DOMAIN newAddresses = {}
       /\ \A a \in DOMAIN given.addresses :
             /\ Cardinality(Holding(pool, a)) = 1
             /\ \A i \in Holding(pool, a) :
                   pool[i].Port = given.addresses[a].Port /\ pool[i].Modified

\* C13: srvsScaled is true exactly when scaleHAProxySrvs appended a slot to
\* the pool, and it is true whenever the Address Set it was handed was not empty.
ScaleReloadSignal ==
    lastOp = "HandleEndpoints" =>
       /\ srvsScaled <=> Len(pool) > Len(given.pool)
       /\ (DNS = "" /\ DOMAIN given.addresses # {}) => srvsScaled

\* a pool that had slots got one more slot, for an address
SlotMintedForAddress ==
    /\ ScaleRan
    /\ Len(given.pool) >= 1
    /\ Len(pool) = Len(given.pool) + 1
    /\ disabled = <<>>
    /\ pool[Len(pool)].Address # ""
    /\ srvsScaled

\* C14: when scaleHAProxySrvs has appended a slot for an address, beyond the
\* slots that bring the pool to srvSlots, no slot of the pool is disabled.
RecycleBeforeMint ==
    ScaleRan =>
       ((\E i \in Appended : i \notin Range(disabled) /\ pool[i].Address # "")
           => \A j \in DOMAIN pool : pool[j].Address # "")

\* C15: a pass of SyncBackendSrvs or HandleEndpoints on a pool whose slots are
\* all clean and hold the addresses of the Address Set, which has no other
\* address, and which already has srvSlots slots, for a backend that is not
\* new and server options that are unchanged, marks no slot Modified, issues
\* no call and asks for no reload.
UnchangedInputNoOp ==
    [][(/\ lastOp' \in {"Sync", "HandleEndpoints"}
        /\ BackendName # ""
        /\ ModifiedIdx(pool) = {}
        /\ {pool[i].Address : i \in DOMAIN pool} = DOMAIN newAddresses
        /\ lastOp' = "HandleEndpoints" =>
              /\ ~given'.newBackend /\ ~srvsActiveAnn'
              /\ Len(pool) >= ResolveSrvSlots(given'.annotations, 1))
          => (ModifiedIdx(pool') = {} /\ calls' = <<>> /\ ~reload')]_vars

\* the server options read back and the ones of this pass differ in a value
TemplateDiffers ==
    \/ given.oldSrv.nil
    \/ (given.oldSrv.obj.Inter = NilPtr) # (given.srv.obj.Inter = NilPtr)
    \/ given.oldSrv.obj.Inter.val # given.srv.obj.Inter.val
    \/ given.oldSrv.obj.Ssl # given.srv.obj.Ssl

CreateFallback ==
    lastOp = "HandleEndpoints" =>
       /\ \A k \in DOMAIN calls :
             /\ (calls[k].fn = "BackendServerEdit" /\ calls[k].err # Nil
                   /\ Contains(calls[k].err.msg, <<"does", "not", "exist">>))
                  => /\ k + 1 \in DOMAIN calls
                     /\ calls[k + 1].fn = "BackendServerCreate"
                     /\ calls[k + 1].spec = calls[k].spec
             /\ calls[k].fn = "BackendServerCreate"
                  => /\ k - 1 \in DOMAIN calls
                     /\ calls[k - 1].fn = "BackendServerEdit"
                     /\ calls[k - 1].err = CallError("BackendServerEdit", calls[k].server, MsgNotExist)
       /\ result.nil

\* the edit of a slot failed with "does not exist", the slot was created, and
\* another slot was edited with no error
ServerCreatedAfterEdit ==
    /\ lastOp = "HandleEndpoints"
    /\ \E k, l \in DOMAIN calls :
         /\ calls[k].fn = "BackendServerCreate" /\ calls[k].err = Nil
         /\ calls[l].fn = "BackendServerEdit" /\ calls[l].err = Nil
         /\ calls[l].server # calls[k].server

\* an annotation value that strconv.Atoi accepts, and its value
Parses(v) == v # <<>> /\ \A i \in DOMAIN v : IsDigit(v[i])

ValueOf(v) == DigitsValue(v, 0)

\* the slot count scaleHAProxySrvs brought the pool to: 0 when it appended no
\* slot for srvSlots
SlotsReached == IF disabled = <<>> THEN 0 ELSE Len(given.pool) + Len(disabled)

\* the least n the pool is grown to for srvSlots = m
GrownTo(m) == IF m > Len(given.pool) THEN m ELSE 0

\* C20 as stated: when scale-server-slots is set and parses, its value is the
\* slot count scaleHAProxySrvs grows the pool to, whatever the legacy
\* annotations servers-increment and server-slots say.
ExplicitSlotCountWins ==
    (ScaleRan /\ Parses(given.annotations["scale-server-slots"])) =>
       SlotsReached = GrownTo(ValueOf(given.annotations["scale-server-slots"]))

\* C20 as amended: the slot count is the value of the first of
\* servers-increment, server-slots, scale-server-slots that is set and parses,
\* so that a legacy annotation takes precedence over scale-server-slots; it is
\* 0 when none of the three parses.
FirstSetSlotCountWins ==
    ScaleRan =>
       LET si == given.annotations["servers-increment"]
           ss == given.annotations["server-slots"]
           sc == given.annotations["scale-server-slots"]
       IN  SlotsReached = GrownTo(IF Parses(si) THEN ValueOf(si)
                                  ELSE IF Parses(ss) THEN ValueOf(ss)
                                  ELSE IF Parses(sc) THEN ValueOf(sc)
                                  ELSE 0)

\* servers-increment = 1 and scale-server-slots = 2 on an empty pool with no
\* address: the pool has one slot
LegacyOverridesExplicit ==
    /\ ScaleRan
    /\ given.annotations["servers-increment"] = <<"1">>
    /\ given.annotations["scale-server-slots"] = <<"2">>
    /\ given.pool = <<>>
    /\ DOMAIN given.addresses = {}
    /\ Len(pool) = 1

GlobalRan == lastOp = "handleGlobalConfig"

\* the calls of the last handler to the client function fn
Pushes(fn) == {k \in DOMAIN calls : calls[k].fn = fn}

\* C18: when the annotations have changed the global section and the client
\* has taken the changed section, handleGlobalConfig returns restart = true:
\* the change is not reported as reload-only or as no change.
RestartOnGlobalChange ==
    (/\ GlobalRan
     /\ locals.oldGlobal.Nbthread # locals.global.Nbthread
     /\ \E k \in Pushes("GlobalPushConfiguration") : ~calls[k].err) => restart

\* the two pointers differ in whether they are nil or in the value they point to
ValueDiffers(a, b) == (a = NilPtr) # (b = NilPtr) \/ a.val # b.val

\* C19: the snapshots handleGlobalConfig compares against are the sections as
\* they were before the annotations were applied; a global section whose
\* field differs from its snapshot is pushed, and so is a defaults section,
\* when the handler gets to it, whose field differs in value behind its
\* pointer; HandleEndpoints on a backend that is not new reports changed
\* server options whenever a field read back differs in value.
ChangeDetectedByValue ==
    [][/\ lastOp' = "handleGlobalConfig" =>
            /\ locals'.oldGlobal = config.global
            /\ locals'.oldDefaults = config.defaults
            /\ locals'.global.Nbthread # config.global.Nbthread
                  => \E k \in DOMAIN calls' :
                        /\ calls'[k].fn = "GlobalPushConfiguration"
                        /\ calls'[k].obj = locals'.global
            /\ (/\ ValueDiffers(config.defaults.CheckTimeout, locals'.defaults.CheckTimeout)
                /\ \A k \in DOMAIN calls' :
                      calls'[k].fn = "GlobalPushConfiguration" => ~calls'[k].err)
                  => \E k \in DOMAIN calls' :
                        /\ calls'[k].fn = "DefaultsPushConfiguration"
                        /\ calls'[k].obj = locals'.defaults
       /\ lastOp' = "HandleEndpoints" =>
            (srvsActiveAnn' <=>
               (/\ ~given'.newBackend
                /\ \/ given'.oldSrv.nil
                   \/ ValueDiffers(given'.oldSrv.obj.Inter, given'.srv.obj.Inter)
                   \/ given'.oldSrv.obj.Ssl # given'.srv.obj.Ssl))]_vars

\* the timeout behind the pointer of the defaults section changed from one
\* value to another while the global section stayed as it was: the defaults
\* were pushed and a reload is asked for
NestedValueChangeDetected ==
    /\ GlobalRan
    /\ locals.oldGlobal = locals.global
    /\ locals.oldDefaults.CheckTimeout # NilPtr
    /\ locals.defaults.CheckTimeout # NilPtr
    /\ locals.oldDefaults.CheckTimeout.val # locals.defaults.CheckTimeout.val
    /\ Pushes("DefaultsPushConfiguration") # {}
    /\ reload /\ ~restart


\* some slot-count annotation is set, and none that is set parses
NoSlotCountParses ==
    /\ \E k \in 1..3 : given.annotations[SlotAnnotations[k]] # <<>>
    /\ \A k \in 1..3 : ~Parses(given.annotations[SlotAnnotations[k]])

\* C21: when the slot-count annotation is set to a value that is not an
\* integer (and no other slot-count annotation gives one), scaleHAProxySrvs
\* appends no slot for a minimum: the pool grows by one slot for each address
\* of the Address Set and by nothing else, the set is drained, and
\* HandleEndpoints goes on to push the slots and returns no error.
UnparseableSlotCountIsZero ==
    (ScaleRan /\ NoSlotCountParses) =>
       /\ disabled = <<>>
       /\ Len(pool) = Len(given.pool) + Cardinality(DOMAIN given.addresses)
       /\ {pool[i].Address : i \in Appended} = DOMAIN given.addresses
       /\ DOMAIN newAddresses = {}
       /\ \A i \in Appended : CallsOf(calls, "BackendServerEdit", pool[i].Name) # {}
       /\ result.nil

\* scale-server-slots = "abc" and one address on an empty pool: one slot, for
\* the address
UnparseableSlotCountScaled ==
    /\ ScaleRan
    /\ given.annotations["scale-server-slots"] = <<"a", "b", "c">>
    /\ given.annotations["servers-increment"] = <<>>
    /\ given.annotations["server-slots"] = <<>>
    /\ given.pool = <<>>
    /\ DOMAIN given.addresses = {"10.0.0.1"}
    /\ Len(pool) = 1
    /\ pool[1].Address = "10.0.0.1"


\* C22: in a pass of SyncBackendSrvs a failed call stops nothing: after a
\* failed SetServerAddr the SetServerState of the same slot is still issued,
\* and every Modified slot further down the pool still receives both its
\* calls, so that the pass issues two calls for each Modified slot.
FailuresDoNotAbort ==
    lastOp = "Sync" =>
       /\ Len(calls) = 2 * Cardinality(ModifiedIdx(pool))
       /\ \A k \in DOMAIN calls :
             calls[k].err # Nil =>
                \A j \in SlotOf(pool, calls[k].server) :
                   /\ calls[k].fn = "SetServerAddr" =>
                         \E l \in CallsOf(calls, "SetServerState", pool[j].Name) : l > k
                   /\ \A i \in ModifiedIdx(pool) :
                         i > j =>
                            /\ \E l \in CallsOf(calls, "SetServerAddr", pool[i].Name) : l > k
                            /\ \E l \in CallsOf(calls, "SetServerState", pool[i].Name) : l > k

\* the address of a slot could not be set; its state was pushed all the same,
\* and so were the address and the state of a later slot
PushedAfterFailure ==
    /\ lastOp = "Sync"
    /\ \E k \in DOMAIN calls :
         /\ calls[k].fn = "SetServerAddr" /\ calls[k].err # Nil
         /\ k + 3 \in DOMAIN calls
         /\ calls[k + 1].fn = "SetServerState" /\ calls[k + 1].server = calls[k].server
         /\ calls[k + 2].fn = "SetServerAddr" /\ calls[k + 2].server # calls[k].server
         /\ calls[k + 3].fn = "SetServerState" /\ calls[k + 3].err # Nil


\* the addresses the slots of a pool hold
HeldAddrs(srvs) == {srvs[i].Address : i \in DOMAIN srvs} \ {""}

\* the addresses of the set that no slot of the pool holds
Unmatched(srvs, addrs) == DOMAIN addrs \ HeldAddrs(srvs)

\* the slots a pass can reuse: those whose address is not in the set, and
\* those whose address an earlier slot of the pool holds as well
Reusable(srvs, addrs) ==
    {i \in DOMAIN srvs :
        \/ srvs[i].Address \notin DOMAIN addrs
        \/ \E j \in 1..(i - 1) : srvs[j].Address = srvs[i].Address}

Min(a, b) == IF a < b THEN a ELSE b

\* C23: after a pass of SyncBackendSrvs every address a slot holds is an
\* address of the Address Set the pass was given; the reusable slots that
\* hold an address after the pass hold, each a different one, addresses that
\* no slot held before, with the port of the entry and Modified = true; as
\* many addresses are assigned as there are unmatched addresses or reusable
\* slots, whichever is fewer; and when the unmatched addresses are no more
\* than the reusable slots, every address of the set is held by a slot.
SyncAssignment ==
    [][(lastOp' = "Sync" /\ BackendName # "") =>
          LET U == Unmatched(pool, newAddresses)
              R == Reusable(pool, newAddresses)
              assigned == {i \in R : pool'[i].Address # ""}
          IN  /\ HeldAddrs(pool') \subseteq DOMAIN newAddresses
              /\ \A i \in assigned :
                    /\ pool'[i].Address \in U
                    /\ pool'[i].Port = newAddresses[pool'[i].Address].Port
                    /\ pool'[i].Modified
              /\ \A i, j \in assigned : i # j => pool'[i].Address # pool'[j].Address
              /\ Cardinality(assigned) = Min(Cardinality(U), Cardinality(R))
              /\ Cardinality(U) <= Cardinality(R) => DOMAIN newAddresses \subseteq HeldAddrs(pool')]_vars

\* a pass gave two unmatched addresses to two reusable slots
TwoAddressesAssigned ==
    /\ lastOp = "Sync"
    /\ Len(disabled) >= 2
    /\ pool[disabled[1]].Address # ""
    /\ pool[disabled[2]].Address # ""
    /\ pool[disabled[1]].Address # pool[disabled[2]].Address
    /\ DOMAIN newAddresses = {}


\* C25: in a pass of SyncBackendSrvs a slot whose address is in the Address
\* Set the pass is given keeps its Address, its Port and its Modified flag,
\* and its address is no longer in the set when the pass ends; the pass
\* leaves the pool at the length it had.
MatchedLeftAlone ==
    [][lastOp' = "Sync" =>
          /\ Len(pool') = Len(pool)
          /\ BackendName # "" =>
                \A i \in DOMAIN pool :
                   pool[i].Address \in DOMAIN newAddresses =>
                      /\ pool'[i].Address = pool[i].Address
                      /\ pool'[i].Port = pool[i].Port
                      /\ pool'[i].Modified = pool[i].Modified
                      /\ pool[i].Address \notin DOMAIN newAddresses']_vars


RealFailures ==
    {k \in DOMAIN calls :
        /\ calls[k].err # Nil
        /\ ~(calls[k].fn = "BackendServerEdit"
              /\ Contains(calls[k].err.msg, <<"does", "not", "exist">>))}

\* C27: in HandleEndpoints the error of a failed edit (other than "does not
\* exist") or of a failed create is written to the log or returned, every
\* slot that is to be pushed is still edited, and the slot whose call failed
\* is Modified when the handler returns.
EditFailuresRecorded ==
    lastOp = "HandleEndpoints" =>
       /\ \A k \in RealFailures :
             calls[k].err \in LoggedErrors(calls) \cup Range(result.errors)
       /\ \A i \in ModifiedIdx(pool) : CallsOf(calls, "BackendServerEdit", pool[i].Name) # {}
       /\ \A k \in RealFailures : \A i \in SlotOf(pool, calls[k].server) : pool[i].Modified


\* C28: the server that HandleEndpoints edits or creates for a slot has the
\* Name of the slot; for a slot with Address = "" it has the address
\* 127.0.0.1 and maintenance enabled, for any other slot the Address and the
\* Port of the slot and maintenance disabled.
ServerSpecOfSlot ==
    lastOp = "HandleEndpoints" =>
       \A k \in DOMAIN calls :
          /\ calls[k].spec.Name = calls[k].server
          /\ \E i \in DOMAIN pool : pool[i].Name = calls[k].spec.Name
          /\ \A i \in SlotOf(pool, calls[k].spec.Name) :
                IF pool[i].Address = ""
                THEN /\ calls[k].spec.Address = "127.0.0.1"
                     /\ calls[k].spec.Maintenance = "enabled"
                ELSE /\ calls[k].spec.Address = pool[i].Address
                     /\ calls[k].spec.Port = pool[i].Port
                     /\ calls[k].spec.Maintenance = "disabled"

\* one pass edited a slot without address and created the server of a slot
\* with an address
DisabledAndEnabledSpecs ==
    /\ lastOp = "HandleEndpoints"
    /\ \E k, l \in DOMAIN calls :
         /\ calls[k].fn = "BackendServerEdit" /\ calls[k].spec.Maintenance = "enabled"
         /\ calls[l].fn = "BackendServerCreate" /\ calls[l].spec.Maintenance = "disabled"
         /\ calls[l].spec.Port = 8080


\* C29: when the annotations leave the global section and the defaults
\* section equal in value to the snapshots taken before, handleGlobalConfig
\* issues neither GlobalPushConfiguration nor DefaultsPushConfiguration and
\* returns restart = false.
NoSpuriousPush ==
    (/\ GlobalRan
     /\ locals.global.Nbthread = locals.oldGlobal.Nbthread
     /\ ~ValueDiffers(locals.oldDefaults.CheckTimeout, locals.defaults.CheckTimeout)) =>
       /\ Pushes("GlobalPushConfiguration") = {}
       /\ Pushes("DefaultsPushConfiguration") = {}
       /\ ~restart

\* the annotations set the number of threads and the timeout the sections
\* already had, the timeout through a pointer of its own: nothing was pushed
SameValuesNotPushed ==
    /\ GlobalRan
    /\ locals.global.Nbthread = 2 /\ locals.oldGlobal.Nbthread = 2
    /\ locals.oldDefaults.CheckTimeout # NilPtr
    /\ locals.defaults.CheckTimeout # locals.oldDefaults.CheckTimeout
    /\ locals.defaults.CheckTimeout.val = locals.oldDefaults.CheckTimeout.val
    /\ calls = <<>>
    /\ ~restart

EqualComparesAnnotations ==
    (/\ lastOp \in {"ConfigMap.Equal", "Service.Equal", "Ingress.Equal"}
     /\ given.a.ref # 0 /\ given.b.ref # 0
     /\ result = TRUE)
    => /\ DOMAIN given.a.obj.Annotations = DOMAIN given.b.obj.Annotations
       /\ \A name \in DOMAIN given.a.obj.Annotations :
              given.a.obj.Annotations[name] = given.b.obj.Annotations[name]

\* C32: after any sequence of Scale and Synchronize calls on one pool, no two
\* slots of the pool hold the same non-empty address
NoDuplicateAddresses ==
    \A i \in DOMAIN pool : \A j \in DOMAIN pool :
        (i # j /\ pool[i].Address # "") => pool[i].Address # pool[j].Address

Max(a, b) == IF a > b THEN a ELSE b

\* C33: len(pool) never exceeds max(minSlots, largest number of simultaneously
\* live addresses seen so far), neither of which exceeds MaxSlots or NumAddrs
\* here; and a pass of HandleEndpoints handed a live set whose addresses the
\* pool all holds already, on a pool of at least minSlots slots, does not
\* grow the pool
PoolGrowthBounded ==
    /\ Len(pool) <= Max(MaxSlots, NumAddrs)
    /\ (/\ lastOp = "HandleEndpoints"
        /\ DNS = ""
        /\ DOMAIN given.addresses \subseteq HeldAddrs(given.pool)
        /\ Len(given.pool) >= ResolveSrvSlots(given.annotations, 1))
       => Len(pool) = Len(given.pool)

\* C34: after a pass of SyncBackendSrvs every enabled slot holds an address of
\* the live Address Set and its Port is the Port of that address's entry
PortFollowsEndpoint ==
    (lastOp = "Sync" /\ BackendName # "")
    => \A i \in DOMAIN pool :
           pool[i].Address # ""
           => /\ pool[i].Address \in DOMAIN liveIn[1]
              /\ pool[i].Port = liveIn[1][pool[i].Address].Port

\* C35: once handleGlobalConfig has pushed the changed global section with
\* success, the call returns restart = true whatever the calls it issues
\* afterwards answer, a failing DefaultsPushConfiguration included
RestartNotLost ==
    GlobalRan
    => \A k \in Pushes("GlobalPushConfiguration") :
           (~calls[k].err /\ locals.oldGlobal # locals.global) => restart

\* C36: handleRequestBasicAuth creates a user list and adds a basic-auth rule
\* only when the auth-type annotation equals "basic-auth"; for an empty or any
\* other value no user list is created and no rule is added
BasicAuthGated ==
    (lastOp = "handleRequestBasicAuth" /\ given.authType # "basic-auth")
    => \A k \in DOMAIN calls : calls[k].fn \notin {"UserListCreateByGroup", "AddRule"}

\* a rule the rule store has taken
Added(k) == calls[k].fn = "AddRule" /\ ~calls[k].err

CorsHeaderNames ==
    {"Access-Control-Allow-Methods", "Access-Control-Allow-Credentials",
     "Access-Control-Allow-Headers", "Access-Control-Max-Age"}

AddedHeader(k, names) ==
    Added(k) /\ calls[k].arg.Type = "SetHdr" /\ calls[k].arg.HdrName \in names

\* C37: a CORS response-header rule (allow-methods, allow-credentials,
\* allow-headers, max-age) is added only if cors-enable parses to true,
\* cors-allow-origin is defined, and before it the set-var rule and then the
\* Access-Control-Allow-Origin rule were both added without error
CorsGatedAndOrdered ==
    lastOp = "handleResponseCors"
    => \A k \in DOMAIN calls :
           AddedHeader(k, CorsHeaderNames)
           => /\ ~GetBoolValue(given.ann.enable).err
              /\ GetBoolValue(given.ann.enable).value
              /\ given.ann.origin # ""
              /\ \E i \in 1..(k - 1) : \E j \in (i + 1)..(k - 1) :
                     /\ Added(i) /\ calls[i].arg.Type = "ReqSetVar"
                     /\ AddedHeader(j, {"Access-Control-Allow-Origin"})

CorsHeadersAdded ==
    /\ lastOp = "handleResponseCors"
    /\ \A name \in CorsHeaderNames : \E k \in DOMAIN calls : AddedHeader(k, {name})

====
